---------------------------- MODULE Spec2Model ----------------------------
(***************************************************************************)
(* Mortgage calculator (vibetgage): payment calculator, amortization       *)
(* engine, yearly aggregator, tax benefit engine.                          *)
(*                                                                         *)
(* Numbers.  The program computes in IEEE doubles.  Here every quantity is *)
(* a scaled integer and every multiplication or division rounds to the     *)
(* nearest unit, so that results carry a rounding residue as the doubles   *)
(* do:                                                                     *)
(*   money    in units of 1/MoneyScale dollar (a mill),                    *)
(*   ratios   (monthly rate, growth factor, LTV, tax rate) in 1/RateScale, *)
(*   annual interest and PMI rates in hundredths of a percent,             *)
(*   percentages in 1/PctScale percent.                                    *)
(* Additions, subtractions and comparisons are exact.                      *)
(***************************************************************************)
EXTENDS Integers, Sequences, FiniteSets, TLC

MoneyScale == 10^3
RateScale == 10^8
PctScale == 10^6
\* annualRate is a percentage: annualRate / 100 is a ratio
RatePerUnit == 100 * 100

\* null, where the program returns "number | null": no such number is negative
Null == -1

\* the doubles of these names
Infinity == 2147483647
NegInfinity == -Infinity
NaN == 1 - Infinity

Max(a, b) == IF a >= b THEN a ELSE b
Min(a, b) == IF a <= b THEN a ELSE b
Abs(a) == IF a < 0 THEN -a ELSE a

(***************************************************************************)
(* a * n / b for 0 <= a, 0 <= n, 0 < b < 2^30, without an intermediate     *)
(* product: <<quotient, remainder>>, by binary expansion of n.  h is the    *)
(* result for n \div 2; it is computed once and then doubled.               *)
(***************************************************************************)
MulDivDouble(h, a, n, b) ==
  LET c == IF 2 * h[2] >= b THEN 1 ELSE 0
      q == 2 * h[1] + c
      r == 2 * h[2] - c * b
      r1 == r + (a % b)
      c1 == IF r1 >= b THEN 1 ELSE 0
  IN IF n % 2 = 0 THEN <<q, r>>
     ELSE <<q + (a \div b) + c1, r1 - c1 * b>>

RECURSIVE MulDivQR(_, _, _)
MulDivQR(a, n, b) ==
  IF n = 0 THEN <<0, 0>>
  ELSE CHOOSE qr \in {MulDivDouble(h, a, n, b) : h \in {MulDivQR(a, n \div 2, b)}} : TRUE

RoundQR(qr, b) == IF 2 * qr[2] >= b THEN qr[1] + 1 ELSE qr[1]

\* a * n / b rounded to the nearest unit (halves away from zero), for n >= 0
\* and b > 0
MulDiv(a, n, b) ==
  IF b <= 0 \/ n < 0 THEN 0
  ELSE IF a < 0 THEN -RoundQR(MulDivQR(-a, n, b), b)
  ELSE RoundQR(MulDivQR(a, n, b), b)

\* x * y, y a ratio
Mul(x, y) == MulDiv(x, y, RateScale)

\* Math.pow(base, n) for a ratio base and an integer n, by squaring
RECURSIVE Pow(_, _)
Pow(base, n) ==
  IF n < 0 THEN MulDiv(RateScale, RateScale, Pow(base, -n))
  ELSE IF n = 0 THEN RateScale
  ELSE CHOOSE p \in {IF n % 2 = 0 THEN sq ELSE Mul(sq, base) :
                     sq \in {Mul(h, h) : h \in {Pow(base, n \div 2)}}} : TRUE

\* x / 2, rounded to the unit
Half(x) == (x + 1) \div 2

(***************************************************************************)
(* Dates: [year, month, day], month 0-based as Date.getMonth().            *)
(***************************************************************************)
IsLeap(y) == (y % 4 = 0 /\ y % 100 # 0) \/ y % 400 = 0

DaysInMonth(y, m) ==
  IF m = 1 THEN (IF IsLeap(y) THEN 29 ELSE 28)
  ELSE IF m \in {3, 5, 8, 10} THEN 30 ELSE 31

\* d = new Date(startDate); d.setMonth(d.getMonth() + i): a day past the end
\* of the target month carries into the next month
AddMonths(startDate, i) ==
  LET t == startDate.month + i
      y == startDate.year + (t \div 12)
      m == t % 12
      dim == DaysInMonth(y, m)
  IN IF startDate.day <= dim
     THEN [year |-> y, month |-> m, day |-> startDate.day]
     ELSE [year |-> y, month |-> m + 1, day |-> startDate.day - dim]

(***************************************************************************)
(* Payment calculator                                                      *)
(***************************************************************************)
\* annualRate / 100 / 12
MonthlyRate(annualRate) == MulDiv(annualRate, RateScale, RatePerUnit * 12)

\* the payment of an interest-free loan, whatever the rate
calculateMonthlyPayment_NoInterest(principal, annualRate, termMonths) ==
  MulDiv(principal, 1, termMonths)

\* a term of 0 divides by 0 in either branch: Infinity, and NaN for 0 / 0
calculateMonthlyPayment(principal, annualRate, termMonths) ==
  LET monthlyRate == MonthlyRate(annualRate)
      factor == Pow(RateScale + monthlyRate, termMonths)
  IN IF termMonths = 0 THEN (IF principal = 0 THEN NaN ELSE Infinity)
     ELSE IF monthlyRate = 0
     THEN MulDiv(principal, 1, termMonths)
     ELSE MulDiv(principal, Mul(monthlyRate, factor), factor - RateScale)

\* loanAmount / homeValue
calculateLTV(loanAmount, homeValue) == MulDiv(loanAmount, RateScale, homeValue)

\* the 0.8 of "ltv <= 0.8"
PMIRequiredLTV == 8 * (RateScale \div 10)

\* the 0.78 of "homeValue * 0.78"
PMIDropOffLTV == 78 * (RateScale \div 100)

\* the 360 of "month < 360"
PMIMaxMonths == 360

\* calculateMonthlyPMI with "ltv < 0.8" for "ltv <= 0.8"
calculateMonthlyPMI_StrictLTV(loanAmount, homeValue, annualPMIRate) ==
  LET ltv == calculateLTV(loanAmount, homeValue)
  IN IF ltv < PMIRequiredLTV
     THEN 0
     ELSE MulDiv(loanAmount, annualPMIRate, RatePerUnit * 12)

calculateMonthlyPMI(loanAmount, homeValue, annualPMIRate) ==
  LET ltv == calculateLTV(loanAmount, homeValue)
  IN IF ltv <= PMIRequiredLTV
     THEN 0
     ELSE MulDiv(loanAmount, annualPMIRate, RatePerUnit * 12)

\* calculatePMIDropOffMonth: "if (initialLTV <= 0.8) return null"
PMINotRequired(loanAmount, homeValue) ==
  calculateLTV(loanAmount, homeValue) <= PMIRequiredLTV

\* homeValue * 0.78
TargetBalance(homeValue) == Mul(homeValue, PMIDropOffLTV)

\* the loop guard with "month <= 360" for "month < 360"
PMIContinues_CapOffByOne(bal, m, homeValue) ==
  bal > TargetBalance(homeValue) /\ m <= PMIMaxMonths

\* balance > targetBalance && month < 360
PMIContinues(bal, m, homeValue) ==
  bal > TargetBalance(homeValue) /\ m < PMIMaxMonths

\* the whole payment taken as principal
PMIBalanceAfter_NoInterest(bal, payment, rate) == bal - payment

\* one pass of the while loop: the balance after the payment
PMIBalanceAfter(bal, payment, rate) ==
  LET interestPayment == Mul(bal, rate)
      principalPayment == payment - interestPayment
  IN bal - principalPayment

(***************************************************************************)
(* Mortgage inputs of the calculator hook: [homePrice, downPayment,        *)
(* downPaymentPercent, loanAmount, interestRate, loanTermMonths,           *)
(* propertyTaxRate, homeInsurance, hoaFees, pmiRate].  downPaymentPercent  *)
(* is in 1/PctScale percent, so that downPaymentPercent / 100 is the same  *)
(* number as a ratio in 1/RateScale; startDate (new Date()) is left out.   *)
(***************************************************************************)
DEFAULT_MORTGAGE_INPUTS ==
  [homePrice |-> 400000 * MoneyScale,
   downPayment |-> 80000 * MoneyScale,
   downPaymentPercent |-> 20 * PctScale,
   loanAmount |-> 320000 * MoneyScale,
   interestRate |-> 650,
   loanTermMonths |-> 360,
   propertyTaxRate |-> 120,
   homeInsurance |-> 1800 * MoneyScale,
   hoaFees |-> 0,
   pmiRate |-> 50]

\* x * y for a ratio y of either sign
MulSigned(x, y) == IF y < 0 THEN -Mul(x, -y) ELSE Mul(x, y)

\* case 'downPayment'
SyncDownPayment(inputs) ==
  [inputs EXCEPT
     !.downPaymentPercent = IF inputs.homePrice > 0
                            THEN MulDiv(inputs.downPayment, RateScale, inputs.homePrice)
                            ELSE 0,
     !.loanAmount = inputs.homePrice - inputs.downPayment]

\* cases 'homePrice' and 'downPaymentPercent'
SyncFromPercent(inputs) ==
  [inputs EXCEPT
     !.downPayment = Mul(inputs.homePrice, inputs.downPaymentPercent),
     !.loanAmount = MulSigned(inputs.homePrice, RateScale - inputs.downPaymentPercent)]

SyncedKeys == {"homePrice", "downPayment", "downPaymentPercent"}

syncMortgageInputs(inputs, changed) ==
  IF changed = "downPayment" THEN SyncDownPayment(inputs)
  ELSE IF changed \in SyncedKeys THEN SyncFromPercent(inputs)
  ELSE inputs

\* the state update of updateInput(key, value): { ...updated, ...synced }
UpdatedInputs(prev, key, value) ==
  LET updated == [prev EXCEPT ![key] = value]
  IN IF key \in SyncedKeys THEN syncMortgageInputs(updated, key) ELSE updated

\* PMI charged over the whole cap of 360 months, whatever the drop-off month
calculateTotalPMI_FullCap(loanAmount, homeValue, annualPMIRate, dropOffMonth) ==
  calculateMonthlyPMI(loanAmount, homeValue, annualPMIRate) * PMIMaxMonths

calculateTotalPMI(loanAmount, homeValue, annualPMIRate, dropOffMonth) ==
  IF dropOffMonth = Null THEN 0
  ELSE calculateMonthlyPMI(loanAmount, homeValue, annualPMIRate) * dropOffMonth

\* calculateMortgageResults(inputs), given the values returned by its calls of
\* calculateMonthlyPayment, calculateMonthlyPMI and calculatePMIDropOffMonth
MortgageResults(in, monthlyPI, pmi, dropOffMonth) ==
  LET monthlyPropertyTax == MulDiv(in.homePrice, in.propertyTaxRate, RatePerUnit * 12)
      monthlyInsurance == MulDiv(in.homeInsurance, 1, 12)
      totalInterest == monthlyPI * in.loanTermMonths - in.loanAmount
  IN [monthlyPrincipalAndInterest |-> monthlyPI,
      monthlyPropertyTax |-> monthlyPropertyTax,
      monthlyInsurance |-> monthlyInsurance,
      monthlyHOA |-> in.hoaFees,
      monthlyPMI |-> pmi,
      totalMonthlyPayment |->
        monthlyPI + monthlyPropertyTax + monthlyInsurance + in.hoaFees + pmi,
      totalInterestPaid |-> totalInterest,
      totalCostOfLoan |-> in.loanAmount + totalInterest,
      loanToValueRatio |-> calculateLTV(in.loanAmount, in.homePrice),
      pmiDropOffMonth |-> dropOffMonth,
      totalPMIPaid |->
        calculateTotalPMI(in.loanAmount, in.homePrice, in.pmiRate, dropOffMonth)]

(***************************************************************************)
(* Amortization engine.  args is the argument record of the call:          *)
(* [principal, annualRate, termMonths, startDate, extraMonthly,            *)
(*  extraYearly, extraYearlyMonth]; a record s holds the loop's locals     *)
(* [monthlyPayment, monthlyRate, balance, cumulativePrincipal,              *)
(*  cumulativeInterest, payments, month].                                  *)
(***************************************************************************)
\* the 0.01 of "balance > 0.01"
PayoffThreshold == MoneyScale \div 100

InitialLocals(a) ==
  [monthlyPayment |-> calculateMonthlyPayment(a.principal, a.annualRate, a.termMonths),
   monthlyRate |-> MonthlyRate(a.annualRate),
   balance |-> a.principal, cumulativePrincipal |-> 0, cumulativeInterest |-> 0,
   payments |-> <<>>, month |-> 0]

\* balance * monthlyRate
InterestPayment(balance, monthlyRate) == Mul(balance, monthlyRate)

\* the recorded balance without the clamp
RemainingBalance_Unclamped(balance) == balance

\* Math.max(0, balance)
RemainingBalance(balance) == Max(0, balance)

\* one iteration of the for loop of generateAmortizationSchedule
ScheduleBody(s, a) ==
  LET i == s.month + 1
      monthlyPayment == s.monthlyPayment
      interestPayment == InterestPayment(s.balance, s.monthlyRate)
      principalPayment == monthlyPayment - interestPayment
      newBalance == s.balance - principalPayment
      cp == s.cumulativePrincipal + principalPayment
      ci == s.cumulativeInterest + interestPayment
  IN [monthlyPayment |-> s.monthlyPayment, monthlyRate |-> s.monthlyRate,
      balance |-> newBalance, cumulativePrincipal |-> cp, cumulativeInterest |-> ci,
      month |-> i,
      payments |-> Append(s.payments,
         [paymentNumber |-> i,
          paymentDate |-> AddMonths(a.startDate, i),
          payment |-> monthlyPayment,
          principal |-> principalPayment,
          interest |-> interestPayment,
          remainingBalance |-> RemainingBalance(newBalance),
          cumulativePrincipal |-> cp,
          cumulativeInterest |-> ci])]

\* the loop left as soon as the balance is paid off
ScheduleContinues_UntilPaidOff(s, a) ==
  s.balance > PayoffThreshold /\ s.month + 1 <= a.termMonths

\* i <= termMonths
ScheduleContinues(s, a) == s.month + 1 <= a.termMonths

ScheduleReturn(s, a) ==
  [payments |-> s.payments,
   totalPrincipal |-> a.principal,
   totalInterest |-> s.cumulativeInterest,
   totalPayments |-> IF s.monthlyPayment \in {Infinity, NaN} THEN NaN
                     ELSE s.monthlyPayment * a.termMonths,
   monthlyPayment |-> s.monthlyPayment]

\* ((startDate.getMonth() + month - 1) % 12) + 1
CurrentMonth(startDate, month) == ((startDate.month + month - 1) % 12) + 1

\* the whole base payment taken as principal, the interest not subtracted
ExtraPrincipal_InterestKept(baseMonthlyPayment, interestPayment, a, month) ==
  LET pp == baseMonthlyPayment + a.extraMonthly
  IN IF CurrentMonth(a.startDate, month) = a.extraYearlyMonth /\ a.extraYearly > 0
     THEN pp + a.extraYearly
     ELSE pp

\* the extra payments subtracted from the principal portion
ExtraPrincipal_Subtracted(baseMonthlyPayment, interestPayment, a, month) ==
  LET pp == baseMonthlyPayment - interestPayment - a.extraMonthly
  IN IF CurrentMonth(a.startDate, month) = a.extraYearlyMonth /\ a.extraYearly > 0
     THEN pp - a.extraYearly
     ELSE pp

\* the principal portion before the overpayment cap
ExtraPrincipal(baseMonthlyPayment, interestPayment, a, month) ==
  LET pp == baseMonthlyPayment - interestPayment + a.extraMonthly
  IN IF CurrentMonth(a.startDate, month) = a.extraYearlyMonth /\ a.extraYearly > 0
     THEN pp + a.extraYearly
     ELSE pp

\* the principal portion left uncapped
CapPrincipal_None(principalPayment, balance) == principalPayment

\* Math.min(principalPayment, balance)
CapPrincipal(principalPayment, balance) == Min(principalPayment, balance)

\* one iteration of the while loop of generateAmortizationWithExtraPayments
ExtraBody(s, a) ==
  LET m == s.month + 1
      baseMonthlyPayment == s.monthlyPayment
      interestPayment == InterestPayment(s.balance, s.monthlyRate)
      principalPayment ==
        CapPrincipal(ExtraPrincipal(baseMonthlyPayment, interestPayment, a, m), s.balance)
      totalPayment == interestPayment + principalPayment
      newBalance == s.balance - principalPayment
      cp == s.cumulativePrincipal + principalPayment
      ci == s.cumulativeInterest + interestPayment
  IN [monthlyPayment |-> s.monthlyPayment, monthlyRate |-> s.monthlyRate,
      balance |-> newBalance, cumulativePrincipal |-> cp, cumulativeInterest |-> ci,
      month |-> m,
      payments |-> Append(s.payments,
         [paymentNumber |-> m,
          paymentDate |-> AddMonths(a.startDate, m),
          payment |-> totalPayment,
          principal |-> principalPayment,
          interest |-> interestPayment,
          remainingBalance |-> RemainingBalance(newBalance),
          cumulativePrincipal |-> cp,
          cumulativeInterest |-> ci])]

\* the loop guard without the payoff test
ExtraContinues_TermOnly(s, a) == s.month < a.termMonths

\* balance > 0.01 && month < termMonths
ExtraContinues(s, a) == s.balance > PayoffThreshold /\ s.month < a.termMonths

RECURSIVE SumPayment(_)
SumPayment(ps) == IF ps = <<>> THEN 0 ELSE ps[1].payment + SumPayment(Tail(ps))

ExtraReturn(s, a) ==
  [payments |-> s.payments,
   totalPrincipal |-> a.principal,
   totalInterest |-> s.cumulativeInterest,
   totalPayments |-> SumPayment(s.payments),
   monthlyPayment |-> s.monthlyPayment]

\* the two generators as functions of their arguments
RECURSIVE RunSchedule(_, _)
RunSchedule(s, a) ==
  IF ScheduleContinues(s, a)
  THEN CHOOSE r \in {RunSchedule(t, a) : t \in {ScheduleBody(s, a)}} : TRUE
  ELSE s

generateAmortizationSchedule(a) == ScheduleReturn(RunSchedule(InitialLocals(a), a), a)

RECURSIVE RunExtra(_, _)
RunExtra(s, a) ==
  IF ExtraContinues(s, a)
  THEN CHOOSE r \in {RunExtra(t, a) : t \in {ExtraBody(s, a)}} : TRUE
  ELSE s

generateAmortizationWithExtraPayments(a) == ExtraReturn(RunExtra(InitialLocals(a), a), a)

compareSchedules(original, modified) ==
  [monthsSaved |-> Len(original.payments) - Len(modified.payments),
   interestSaved |-> original.totalInterest - modified.totalInterest,
   totalSaved |-> original.totalPayments - modified.totalPayments]

(***************************************************************************)
(* Yearly aggregator                                                       *)
(***************************************************************************)
\* yearMap.keys(): the calendar years of the payment dates
YearKeys(ps) == {ps[k].paymentDate.year : k \in DOMAIN ps}

\* the years sorted in descending order
RECURSIVE SortedYears_Descending(_)
SortedYears_Descending(ys) ==
  IF ys = {} THEN <<>>
  ELSE LET hi == CHOOSE y \in ys : \A z \in ys : y >= z
       IN <<hi>> \o SortedYears_Descending(ys \ {hi})

\* Array.from(keys).sort((a, b) => a - b)
RECURSIVE SortedYears(_)
SortedYears(ys) ==
  IF ys = {} THEN <<>>
  ELSE LET lo == CHOOSE y \in ys : \A z \in ys : y <= z
       IN <<lo>> \o SortedYears(ys \ {lo})

\* yearMap.get(calendarYear): the payments of that year, in ledger order
PaymentsOfYear(ps, y) == SelectSeq(ps, LAMBDA p : p.paymentDate.year = y)

RECURSIVE SumPrincipal(_)
SumPrincipal(ps) == IF ps = <<>> THEN 0 ELSE ps[1].principal + SumPrincipal(Tail(ps))

RECURSIVE SumInterest(_)
SumInterest(ps) == IF ps = <<>> THEN 0 ELSE ps[1].interest + SumInterest(Tail(ps))

\* the share as a fraction, not multiplied by 100
PercentOf_Fraction(part, totalPaid) ==
  IF totalPaid > 0 THEN MulDiv(part, PctScale, totalPaid) ELSE 0

\* totalPaid > 0 ? (part / totalPaid) * 100 : 0
PercentOf(part, totalPaid) ==
  IF totalPaid > 0 THEN MulDiv(part, 100 * PctScale, totalPaid) ELSE 0

YearSummary(ps, calendarYear, yearIndex) ==
  LET yp == PaymentsOfYear(ps, calendarYear)
      principalPaid == SumPrincipal(yp)
      interestPaid == SumInterest(yp)
      totalPaid == principalPaid + interestPaid
  IN [year |-> yearIndex,
      calendarYear |-> calendarYear,
      principalPaid |-> principalPaid,
      interestPaid |-> interestPaid,
      totalPaid |-> totalPaid,
      endingBalance |-> yp[Len(yp)].remainingBalance,
      principalPercent |-> PercentOf(principalPaid, totalPaid),
      interestPercent |-> PercentOf(interestPaid, totalPaid)]

generateYearlySummary(sched) ==
  LET sortedYears == SortedYears(YearKeys(sched.payments))
  IN [k \in 1..Len(sortedYears) |-> YearSummary(sched.payments, sortedYears[k], k)]

(***************************************************************************)
(* Tax rules.  The tables are in whole dollars and whole percents, as in    *)
(* the source; Dollars and Percent convert them.  An instant (a Date with   *)
(* its time of day) is [year, month, day, minute], in UTC.                  *)
(***************************************************************************)
Dollars(x) == x * MoneyScale
Percent(x) == x * (RateScale \div 100)

FilingStatuses ==
  {"single", "married_filing_jointly", "married_filing_separately", "head_of_household"}

TAX_YEAR_2025 ==
  [year |-> 2025,
   standardDeductions |->
     [single |-> 15000, married_filing_jointly |-> 30000,
      married_filing_separately |-> 15000, head_of_household |-> 22500],
   mortgageDebtLimit |-> 750000,
   saltCap |-> 40000,
   brackets |->
     [single |->
        << [min |-> 0, max |-> 11925, rate |-> 10],
           [min |-> 11925, max |-> 48475, rate |-> 12],
           [min |-> 48475, max |-> 103350, rate |-> 22],
           [min |-> 103350, max |-> 197300, rate |-> 24],
           [min |-> 197300, max |-> 250500, rate |-> 32],
           [min |-> 250500, max |-> 626350, rate |-> 35],
           [min |-> 626350, max |-> Null, rate |-> 37] >>,
      married_filing_jointly |->
        << [min |-> 0, max |-> 23850, rate |-> 10],
           [min |-> 23850, max |-> 96950, rate |-> 12],
           [min |-> 96950, max |-> 206700, rate |-> 22],
           [min |-> 206700, max |-> 394600, rate |-> 24],
           [min |-> 394600, max |-> 501050, rate |-> 32],
           [min |-> 501050, max |-> 751600, rate |-> 35],
           [min |-> 751600, max |-> Null, rate |-> 37] >>,
      married_filing_separately |->
        << [min |-> 0, max |-> 11925, rate |-> 10],
           [min |-> 11925, max |-> 48475, rate |-> 12],
           [min |-> 48475, max |-> 103350, rate |-> 22],
           [min |-> 103350, max |-> 197300, rate |-> 24],
           [min |-> 197300, max |-> 250500, rate |-> 32],
           [min |-> 250500, max |-> 375800, rate |-> 35],
           [min |-> 375800, max |-> Null, rate |-> 37] >>,
      head_of_household |->
        << [min |-> 0, max |-> 17000, rate |-> 10],
           [min |-> 17000, max |-> 64850, rate |-> 12],
           [min |-> 64850, max |-> 103350, rate |-> 22],
           [min |-> 103350, max |-> 197300, rate |-> 24],
           [min |-> 197300, max |-> 250500, rate |-> 32],
           [min |-> 250500, max |-> 626350, rate |-> 35],
           [min |-> 626350, max |-> Null, rate |-> 37] >>]]

PRE_2017_MORTGAGE_LIMIT == 1000000

\* new Date('2017-12-15'): a date-only string is midnight UTC
MORTGAGE_LIMIT_CUTOFF_DATE == [year |-> 2017, month |-> 11, day |-> 15, minute |-> 0]

\* the days of the years before y
DaysBeforeYear(y) ==
  365 * y + ((y - 1) \div 4) - ((y - 1) \div 100) + ((y - 1) \div 400)

\* the days of year y before its month m
RECURSIVE DaysBeforeMonth(_, _)
DaysBeforeMonth(y, m) ==
  IF m = 0 THEN 0 ELSE DaysInMonth(y, m - 1) + DaysBeforeMonth(y, m - 1)

\* Date.valueOf(), in minutes: what <= compares
valueOf(d) ==
  (DaysBeforeYear(d.year) + DaysBeforeMonth(d.year, d.month) + d.day - 1) * 1440
    + d.minute

getMortgageDeductionLimit(originationDate) ==
  IF valueOf(originationDate) <= valueOf(MORTGAGE_LIMIT_CUTOFF_DATE)
  THEN PRE_2017_MORTGAGE_LIMIT
  ELSE TAX_YEAR_2025.mortgageDebtLimit

\* the 1.025 of Math.pow(1.025, yearsDiff): the double nearest 1.025 lies just
\* below it, and so does this ratio
InflationBase == 102499999

\* Math.floor for Math.round
RoundToStep_Floor(base, inflationFactor, step) ==
  (MulDivQR(base, inflationFactor, RateScale)[1] \div step) * step

\* Math.round(base * inflationFactor / step) * step, the product not rounded
RoundToStep(base, inflationFactor, step) ==
  LET qr == MulDivQR(base, inflationFactor, RateScale)
      twice == 2 * qr[1] + (IF 2 * qr[2] >= RateScale THEN 1 ELSE 0)
  IN ((twice + step) \div (2 * step)) * step

\* the extrapolation with upper edges rounded to 50 instead of 25
getTaxYearConfig_MaxStep50(year) ==
  IF year = 2025 THEN TAX_YEAR_2025
  ELSE LET inflationFactor == Pow(InflationBase, year - 2025)
       IN [year |-> year,
           standardDeductions |->
             [st \in FilingStatuses |->
                RoundToStep(TAX_YEAR_2025.standardDeductions[st], inflationFactor, 50)],
           mortgageDebtLimit |-> TAX_YEAR_2025.mortgageDebtLimit,
           saltCap |-> TAX_YEAR_2025.saltCap,
           brackets |->
             [st \in FilingStatuses |->
                [k \in DOMAIN TAX_YEAR_2025.brackets[st] |->
                   LET bracket == TAX_YEAR_2025.brackets[st][k]
                   IN [min |-> RoundToStep(bracket.min, inflationFactor, 25),
                       max |-> IF bracket.max # Null
                               THEN RoundToStep(bracket.max, inflationFactor, 50)
                               ELSE Null,
                       rate |-> bracket.rate]]]]

getTaxYearConfig(year) ==
  IF year = 2025 THEN TAX_YEAR_2025
  ELSE LET baseYear == 2025
           yearsDiff == year - baseYear
           inflationFactor == Pow(InflationBase, yearsDiff)
       IN [year |-> year,
           standardDeductions |->
             [st \in FilingStatuses |->
                RoundToStep(TAX_YEAR_2025.standardDeductions[st], inflationFactor, 50)],
           mortgageDebtLimit |-> TAX_YEAR_2025.mortgageDebtLimit,
           saltCap |-> TAX_YEAR_2025.saltCap,
           brackets |->
             [st \in FilingStatuses |->
                [k \in DOMAIN TAX_YEAR_2025.brackets[st] |->
                   LET bracket == TAX_YEAR_2025.brackets[st][k]
                   IN [min |-> RoundToStep(bracket.min, inflationFactor, 25),
                       max |-> IF bracket.max # Null
                               THEN RoundToStep(bracket.max, inflationFactor, 25)
                               ELSE Null,
                       rate |-> bracket.rate]]]]

\* the scan with "income > min" for "income >= min"
RECURSIVE ScanBrackets_Strict(_, _, _)
ScanBrackets_Strict(brackets, i, income) ==
  IF i < 1 THEN brackets[1].rate
  ELSE IF income > Dollars(brackets[i].min) THEN brackets[i].rate
  ELSE ScanBrackets_Strict(brackets, i - 1, income)

\* the scan from the highest bracket down: for (i = length - 1; i >= 0; i--)
RECURSIVE ScanBrackets(_, _, _)
ScanBrackets(brackets, i, income) ==
  IF i < 1 THEN brackets[1].rate
  ELSE IF income >= Dollars(brackets[i].min) THEN brackets[i].rate
  ELSE ScanBrackets(brackets, i - 1, income)

\* the rate as a ratio
getMarginalTaxRate(income, filingStatus, year) ==
  CHOOSE rate \in {Percent(ScanBrackets(brackets, Len(brackets), income)) :
                     brackets \in {getTaxYearConfig(year).brackets[filingStatus]}} : TRUE

(***************************************************************************)
(* Tax benefit engine.  A profile is [filingStatus, annualIncome,           *)
(* marginalTaxRateOverride, stateTaxRate, stateAndLocalTaxes,               *)
(* charitableContributions, otherItemizedDeductions,                        *)
(* mortgageOriginationDate]: money in mills, rates as ratios.               *)
(***************************************************************************)
calculateDeductibleInterest(interestPaid, loanAmount, loanLimit) ==
  IF loanAmount <= loanLimit
  THEN interestPaid
  ELSE LET qualifyingRatio == MulDiv(loanLimit, RateScale, loanAmount)
       IN Mul(interestPaid, qualifyingRatio)

calculateSaltDeduction(stateAndLocalTaxes, saltCap) == Min(stateAndLocalTaxes, saltCap)

\* the total of calculateTotalItemizedDeductions
calculateTotalItemizedDeductions(deductibleInterest, stateAndLocalTaxes, charitableContributions, otherDeductions, saltCap) ==
  LET cappedSalt == calculateSaltDeduction(stateAndLocalTaxes, saltCap)
  IN deductibleInterest + cappedSalt + charitableContributions + otherDeductions

calculateTaxSavings(itemizedTotal, standardDeduction, marginalRate) ==
  LET benefit == Max(0, itemizedTotal - standardDeduction)
  IN Mul(benefit, marginalRate)

\* a percentage
calculateEffectiveRate(grossInterest, taxSavings, averageBalance) ==
  IF averageBalance <= 0 THEN 0
  ELSE LET netInterest == grossInterest - taxSavings
       IN MulDiv(netInterest, 100 * PctScale, averageBalance)

\* itemizedTotal > standardDeduction with ">=" for ">"
ShouldItemize_TieItemizes(itemizedTotal, standardDeduction) ==
  itemizedTotal >= standardDeduction

\* itemizedTotal > standardDeduction
ShouldItemize(itemizedTotal, standardDeduction) == itemizedTotal > standardDeduction

\* the break-even tracking without the test of yearsOfItemization
NextBreakEvenYear_AnyStandardYear(shouldItemize, breakEven, itemized, idx) ==
  IF ~shouldItemize /\ breakEven = Null THEN idx + 1 ELSE breakEven

\* if (shouldItemize) ... else if (breakEvenYear === null &&
\* yearsOfItemization > 0) breakEvenYear = i + 1
NextBreakEvenYear(shouldItemize, breakEven, itemized, idx) ==
  IF ~shouldItemize /\ breakEven = Null /\ itemized > 0 THEN idx + 1 ELSE breakEven

\* schedule.payments.filter(p => p.paymentDate.getFullYear() === taxYear).length
PaymentsInYear(ps, taxYear) == Len(PaymentsOfYear(ps, taxYear))

\* the entry pushed by pass idx (0-based) of the loop of calculateTaxBenefits
YearlyTaxBenefit(sched, yearlySummaries, loanAmount, profile, limit, idx) ==
  LET yearSummary == yearlySummaries[idx + 1]
      taxYear == yearSummary.calendarYear
      taxConfig == getTaxYearConfig(taxYear)
      deductibleInterest ==
        calculateDeductibleInterest(yearSummary.interestPaid, loanAmount, limit)
      marginalRate ==
        IF profile.marginalTaxRateOverride # Null
        THEN profile.marginalTaxRateOverride
        ELSE getMarginalTaxRate(profile.annualIncome, profile.filingStatus, taxYear)
      itemizedTotal ==
        calculateTotalItemizedDeductions(deductibleInterest,
          profile.stateAndLocalTaxes, profile.charitableContributions,
          profile.otherItemizedDeductions, Dollars(taxConfig.saltCap))
      standardDeduction == Dollars(taxConfig.standardDeductions[profile.filingStatus])
      shouldItemize == ShouldItemize(itemizedTotal, standardDeduction)
      itemizationBenefit == Max(0, itemizedTotal - standardDeduction)
      federalTaxSavings ==
        calculateTaxSavings(itemizedTotal, standardDeduction, marginalRate)
      stateTaxSavings ==
        IF shouldItemize THEN Mul(deductibleInterest, profile.stateTaxRate) ELSE 0
      totalTaxSavings == federalTaxSavings + stateTaxSavings
      netCost == yearSummary.totalPaid - totalTaxSavings
      startBalance ==
        IF idx = 0 THEN loanAmount ELSE yearlySummaries[idx].endingBalance
      avgBalance == Half(startBalance + yearSummary.endingBalance)
      paymentsInYear == PaymentsInYear(sched.payments, taxYear)
  IN [year |-> yearSummary.year,
      calendarYear |-> taxYear,
      interestPaid |-> yearSummary.interestPaid,
      deductibleInterest |-> deductibleInterest,
      totalItemizedDeductions |-> itemizedTotal,
      standardDeduction |-> standardDeduction,
      shouldItemize |-> shouldItemize,
      itemizationBenefit |-> itemizationBenefit,
      marginalTaxRate |-> marginalRate,
      federalTaxSavings |-> federalTaxSavings,
      stateTaxSavings |-> stateTaxSavings,
      totalTaxSavings |-> totalTaxSavings,
      grossPayments |-> yearSummary.totalPaid,
      netCostAfterTaxBenefit |-> netCost,
      effectiveMonthlyPayment |->
        IF paymentsInYear > 0 THEN MulDiv(netCost, 1, paymentsInYear) ELSE 0,
      effectiveInterestRate |->
        calculateEffectiveRate(yearSummary.interestPaid,
          IF shouldItemize THEN federalTaxSavings ELSE 0, avgBalance)]

RECURSIVE SumInterestPaid(_)
SumInterestPaid(ys) ==
  IF ys = <<>> THEN 0 ELSE ys[1].interestPaid + SumInterestPaid(Tail(ys))

RECURSIVE SumTotalTaxSavings(_)
SumTotalTaxSavings(ys) ==
  IF ys = <<>> THEN 0 ELSE ys[1].totalTaxSavings + SumTotalTaxSavings(Tail(ys))

\* (netInterest / avgBalance / years) * 100, avgBalance = loanAmount / 2
calculateOverallEffectiveRate(breakdown, loanAmount) ==
  IF Len(breakdown) = 0 THEN 0
  ELSE LET netInterest == SumInterestPaid(breakdown) - SumTotalTaxSavings(breakdown)
           avgBalance == Half(loanAmount)
           perYear == MulDiv(MulDiv(netInterest, RateScale, avgBalance), 1, Len(breakdown))
       IN MulDiv(perYear, 100 * PctScale, RateScale)

\* the TaxBenefitSummary returned after the loop
TaxBenefitSummary(breakdown, loanAmount, breakEven, itemized) ==
  LET totalInterestPaid == SumInterestPaid(breakdown)
      totalTaxSavings == SumTotalTaxSavings(breakdown)
  IN [yearlyBreakdown |-> breakdown,
      totalInterestPaid |-> totalInterestPaid,
      totalTaxSavings |-> totalTaxSavings,
      totalNetInterestCost |-> totalInterestPaid - totalTaxSavings,
      breakEvenYear |-> breakEven,
      yearsOfItemization |-> itemized,
      averageYearlyTaxSavings |->
        IF Len(breakdown) > 0 THEN MulDiv(totalTaxSavings, 1, Len(breakdown)) ELSE 0,
      overallEffectiveRate |-> calculateOverallEffectiveRate(breakdown, loanAmount),
      firstYearEffectiveRate |->
        IF Len(breakdown) > 0 THEN breakdown[1].effectiveInterestRate ELSE 0]

(***************************************************************************)
(* Buydown engine.  Points are counted in 1/PointScale point, durations    *)
(* (months, years) and other plain numbers in 1/NumberScale.              *)
(***************************************************************************)
PointScale == 10^2
NumberScale == 10^3

\* loanAmount * (numberOfPoints / 100)
calculatePointsCost(loanAmount, numberOfPoints) ==
  MulDiv(loanAmount, numberOfPoints, 100 * PointScale)

calculateBoughtDownRate(baseRate, numberOfPoints, rateReductionPerPoint) ==
  LET reduction == MulDiv(numberOfPoints, rateReductionPerPoint, PointScale)
  IN Max(0, baseRate - reduction)

\* the test "monthlySavings < 0" for "monthlySavings <= 0"
NoSavings_Negative(monthlySavings) == monthlySavings < 0

\* if (monthlySavings <= 0)
NoSavings(monthlySavings) == monthlySavings <= 0

\* pointsCost / monthlySavings; a division by 0 gives Infinity, and NaN for 0 / 0
calculateBreakEvenMonths(pointsCost, monthlySavings) ==
  IF NoSavings(monthlySavings) THEN Infinity
  ELSE IF monthlySavings = 0 THEN (IF pointsCost = 0 THEN NaN ELSE Infinity)
  ELSE MulDiv(pointsCost, NumberScale, monthlySavings)

\* the refinance slice taken as the whole cost
RefinanceSlice_WholeCost(pointsCost, loanTermYears) == pointsCost

\* pointsCost / loanTermYears
RefinanceSlice(pointsCost, loanTermYears) ==
  MulDiv(pointsCost, NumberScale, loanTermYears)

calculatePointsTaxDeduction(pointsCost, isRefinance, loanTermYears) ==
  IF ~isRefinance
  THEN [firstYearDeduction |-> pointsCost,
        totalDeduction |-> pointsCost,
        deductionPerYear |-> pointsCost]
  ELSE LET deductionPerYear == RefinanceSlice(pointsCost, loanTermYears)
       IN [firstYearDeduction |-> deductionPerYear,
           totalDeduction |-> pointsCost,
           deductionPerYear |-> deductionPerYear]

calculateEffectivePointsCost(pointsCost, taxDeductibleAmount, marginalTaxRate) ==
  LET taxSavings == Mul(taxDeductibleAmount, marginalTaxRate)
  IN pointsCost - taxSavings

\* monthlyPayment * termMonths - principal
calculateTotalInterest(principal, payment, termMonths) ==
  payment * termMonths - principal

\* x / d for a duration x that may be Infinity or NaN
DivideDuration(x, d) ==
  IF x \in {Infinity, NaN} THEN x ELSE MulDiv(x, 1, d)

buildBuydownScenario(inputs) ==
  LET loanAmount == inputs.loanAmount
      baseInterestRate == inputs.baseInterestRate
      loanTermMonths == inputs.loanTermMonths
      numberOfPoints == inputs.numberOfPoints
      pointsCostDollars == calculatePointsCost(loanAmount, numberOfPoints)
      boughtDownRate ==
        calculateBoughtDownRate(baseInterestRate, numberOfPoints,
                                inputs.rateReductionPerPoint)
      originalMonthlyPayment ==
        calculateMonthlyPayment(loanAmount, baseInterestRate, loanTermMonths)
      boughtDownMonthlyPayment ==
        calculateMonthlyPayment(loanAmount, boughtDownRate, loanTermMonths)
      monthlySavings == originalMonthlyPayment - boughtDownMonthlyPayment
      breakEvenMonths == calculateBreakEvenMonths(pointsCostDollars, monthlySavings)
      totalInterestWithoutPoints ==
        calculateTotalInterest(loanAmount, originalMonthlyPayment, loanTermMonths)
      totalInterestWithPoints ==
        calculateTotalInterest(loanAmount, boughtDownMonthlyPayment, loanTermMonths)
      totalCostWithoutPoints == loanAmount + totalInterestWithoutPoints
      totalCostWithPoints == loanAmount + totalInterestWithPoints + pointsCostDollars
      loanTermYears == MulDiv(loanTermMonths, NumberScale, 12)
      taxDeductibleAmount ==
        calculatePointsTaxDeduction(pointsCostDollars, inputs.isRefinance,
                                    loanTermYears).firstYearDeduction
      effectiveCostAfterTax ==
        calculateEffectivePointsCost(pointsCostDollars, taxDeductibleAmount,
                                     inputs.marginalTaxRate)
  IN [numberOfPoints |-> numberOfPoints,
      pointsCostDollars |-> pointsCostDollars,
      pointsCostPercent |-> numberOfPoints,
      originalRate |-> baseInterestRate,
      boughtDownRate |-> boughtDownRate,
      rateReduction |-> baseInterestRate - boughtDownRate,
      originalMonthlyPayment |-> originalMonthlyPayment,
      boughtDownMonthlyPayment |-> boughtDownMonthlyPayment,
      monthlySavings |-> monthlySavings,
      breakEvenMonths |-> breakEvenMonths,
      breakEvenYears |-> DivideDuration(breakEvenMonths, 12),
      totalInterestWithoutPoints |-> totalInterestWithoutPoints,
      totalInterestWithPoints |-> totalInterestWithPoints,
      interestSavings |-> totalInterestWithoutPoints - totalInterestWithPoints,
      totalCostWithoutPoints |-> totalCostWithoutPoints,
      totalCostWithPoints |-> totalCostWithPoints,
      netSavingsOverLife |-> totalCostWithoutPoints - totalCostWithPoints,
      taxDeductibleAmount |-> taxDeductibleAmount,
      effectiveCostAfterTax |-> effectiveCostAfterTax,
      adjustedBreakEvenMonths |->
        calculateBreakEvenMonths(effectiveCostAfterTax, monthlySavings)]

\* pointsOptions.map(points => buildBuydownScenario({...baseInputs, numberOfPoints}))
BuildScenarios(baseInputs, pointsOptions) ==
  [k \in DOMAIN pointsOptions |->
     buildBuydownScenario([loanAmount |-> baseInputs.loanAmount,
                           baseInterestRate |-> baseInputs.baseInterestRate,
                           loanTermMonths |-> baseInputs.loanTermMonths,
                           numberOfPoints |-> pointsOptions[k],
                           rateReductionPerPoint |-> baseInputs.rateReductionPerPoint,
                           isRefinance |-> baseInputs.isRefinance,
                           expectedOwnershipYears |-> baseInputs.expectedOwnershipYears,
                           marginalTaxRate |-> baseInputs.marginalTaxRate])]

\* the savings at the duration alone, the cost of the points not deducted
NetValue_SavingsOnly(scenario, ownershipMonths) ==
  scenario.monthlySavings * ownershipMonths

\* scenario.monthlySavings * ownershipMonths - scenario.pointsCostDollars
NetValue(scenario, ownershipMonths) ==
  scenario.monthlySavings * ownershipMonths - scenario.pointsCostDollars

\* the comparison "netValue >= bestNetValue" for "netValue > bestNetValue"
Better_OrEqual(netValue, best) == netValue >= best

\* if (netValue > bestNetValue)
Better(netValue, best) == netValue > best

\* optimalScenario.monthlySavings * yearsOfSavings * 12, rounded to the dollar
ProjectedSavings(savings, yearsOfSavings) ==
  IF yearsOfSavings = NaN THEN NaN
  ELSE IF yearsOfSavings = NegInfinity
  THEN (IF savings = 0 THEN NaN ELSE IF savings < 0 THEN Infinity ELSE NegInfinity)
  ELSE LET product == IF yearsOfSavings < 0
                      THEN -MulDiv(savings * 12, -yearsOfSavings, NumberScale)
                      ELSE MulDiv(savings * 12, yearsOfSavings, NumberScale)
       IN ((product + MoneyScale \div 2) \div MoneyScale) * MoneyScale

\* the values the recommendation text is made of: breakEvenYears.toFixed(1)
\* and Math.round(projectedSavings)
generateRecommendation(optimalScenario, ownershipYears) ==
  IF optimalScenario.numberOfPoints = 0
  THEN [noPoints |-> TRUE, ownershipYears |-> ownershipYears]
  ELSE LET breakEvenYears == optimalScenario.breakEvenYears
           yearsOfSavings ==
             IF breakEvenYears = NaN THEN NaN
             ELSE IF breakEvenYears = Infinity THEN NegInfinity
             ELSE ownershipYears * NumberScale - breakEvenYears
       IN [noPoints |-> FALSE,
           numberOfPoints |-> optimalScenario.numberOfPoints,
           plural |-> optimalScenario.numberOfPoints # PointScale,
           ownershipYears |-> ownershipYears,
           breakEvenYears |->
             IF breakEvenYears \in {Infinity, NaN} THEN breakEvenYears
             ELSE ((breakEvenYears + 50) \div 100) * 100,
           projectedSavings |->
             ProjectedSavings(optimalScenario.monthlySavings, yearsOfSavings)]

(***************************************************************************)
(* State: one call at a time.  op names the entry point, args its          *)
(* arguments, pc the position in it; the other variables are the locals of *)
(* the running loop and the values returned so far.                        *)
(***************************************************************************)
VARIABLES op, pc, args,
          monthlyPayment, monthlyRate, balance, cumulativePrincipal,
          cumulativeInterest, payments, month,
          schedule, summaries,
          monthlyPMI, pmiDropOffMonth,
          loanLimit, yearlyBreakdown, breakEvenYear, yearsOfItemization, loopIndex,
          taxBenefits, result,
          scenarios, scenarioIndex, bestScenario, bestNetValue,
          inputs, updates

vars == <<op, pc, args, monthlyPayment, monthlyRate, balance, cumulativePrincipal,
          cumulativeInterest, payments, month, schedule, summaries,
          monthlyPMI, pmiDropOffMonth, loanLimit, yearlyBreakdown, breakEvenYear,
          yearsOfItemization, loopIndex, taxBenefits, result,
          scenarios, scenarioIndex, bestScenario, bestNetValue, inputs, updates>>

ledgerVars == <<cumulativePrincipal, cumulativeInterest, payments, schedule, summaries>>
pmiVars == <<monthlyPMI, pmiDropOffMonth>>
taxVars == <<loanLimit, yearlyBreakdown, breakEvenYear, yearsOfItemization, loopIndex,
             taxBenefits>>
buydownVars == <<scenarios, scenarioIndex, bestScenario, bestNetValue>>
\* the state of useMortgageCalculator and the number of updates it has taken
hookVars == <<inputs, updates>>
\* the locals and results of the engine's calls: untouched by the table lookups
callVars ==
  <<monthlyPayment, monthlyRate, balance, month, ledgerVars, pmiVars, taxVars, buydownVars,
    hookVars>>

\* longest term of the enumerated short loans
MaxTerm == 4

\* most updateInput calls followed from the default inputs
MaxUpdates == 3

\* in mills: one cent, three cents, $12.673, $100
PrincipalSet == {10, 30, 12673, 100000}
RateSet == {0, 600, 1200}
StartDates == {[year |-> 2025, month |-> 0, day |-> 15],
               [year |-> 2025, month |-> 10, day |-> 30]}
ExtraMonthlySet == {0, 5, 20000}
ExtraYearlySet == {0, 50000}
ExtraYearlyMonths == {1, 12}

ScheduleArgs ==
  [principal : PrincipalSet, annualRate : RateSet, termMonths : 1..MaxTerm,
   startDate : StartDates, extraMonthly : {0}, extraYearly : {0},
   extraYearlyMonth : {12}]

\* loans of no term: the loop never runs
ZeroTermArgs ==
  [principal : {100000}, annualRate : {0, 600}, termMonths : {0},
   startDate : {[year |-> 2025, month |-> 0, day |-> 15]},
   extraMonthly : {0}, extraYearly : {0}, extraYearlyMonth : {12}]

\* loans that run over several calendar years
LongArgs ==
  [principal : {20000000}, annualRate : {1200}, termMonths : {14, 26},
   startDate : {[year |-> 2025, month |-> 10, day |-> 15]},
   extraMonthly : {0}, extraYearly : {0}, extraYearlyMonth : {12}]

ExtraArgs ==
  [principal : PrincipalSet, annualRate : RateSet, termMonths : 1..MaxTerm,
   startDate : StartDates, extraMonthly : ExtraMonthlySet,
   extraYearly : ExtraYearlySet, extraYearlyMonth : ExtraYearlyMonths]

Locals ==
  [monthlyPayment |-> monthlyPayment, monthlyRate |-> monthlyRate,
   balance |-> balance, cumulativePrincipal |-> cumulativePrincipal,
   cumulativeInterest |-> cumulativeInterest, payments |-> payments,
   month |-> month]

SetLocals(s) ==
  /\ monthlyPayment' = s.monthlyPayment
  /\ monthlyRate' = s.monthlyRate
  /\ balance' = s.balance
  /\ cumulativePrincipal' = s.cumulativePrincipal
  /\ cumulativeInterest' = s.cumulativeInterest
  /\ payments' = s.payments
  /\ month' = s.month

\* the locals of calculateTaxBenefits, before it runs
InitBuydownLocals ==
  /\ scenarios = <<>>
  /\ scenarioIndex = 0
  /\ bestScenario = Null
  /\ bestNetValue = Null

InitTaxLocals ==
  /\ loanLimit = Null
  /\ yearlyBreakdown = <<>>
  /\ breakEvenYear = Null
  /\ yearsOfItemization = 0
  /\ loopIndex = 0

InitAmortization ==
  /\ \/ op = "schedule" /\ args \in ScheduleArgs \cup LongArgs \cup ZeroTermArgs
     \/ op = "extra" /\ args \in ExtraArgs \cup ZeroTermArgs
  /\ pc = "loop"
  /\ LET s == InitialLocals(args)
     IN /\ monthlyPayment = s.monthlyPayment
        /\ monthlyRate = s.monthlyRate
        /\ balance = s.balance
        /\ cumulativePrincipal = s.cumulativePrincipal
        /\ cumulativeInterest = s.cumulativeInterest
        /\ payments = s.payments
        /\ month = s.month
  /\ schedule = Null
  /\ summaries = <<>>
  /\ monthlyPMI = Null
  /\ pmiDropOffMonth = Null
  /\ InitTaxLocals
  /\ taxBenefits = Null
  /\ result = Null
  /\ InitBuydownLocals

\* PMI calls: a $400,000 home, loans from 75% to 95% of it, the payment either
\* the amortizing payment of a 2, 4, 15 or 30 year loan or a fixed low amount
HomeValues == {400000000}
LoanAmounts == {300000000, 320000000, 320001000, 330000000, 380000000}
PMITerms == {24, 48, 180, 360}
LowPayments == {0, 300000, 100000000}

PMIArgs ==
  {[loanAmount |-> l, homeValue |-> h, annualRate |-> r, annualPMIRate |-> 50,
    monthlyPayment |-> calculateMonthlyPayment(l, r, t), loanTermMonths |-> t] :
      l \in LoanAmounts, h \in HomeValues, r \in {0, 650}, t \in PMITerms}
  \cup
  [loanAmount : LoanAmounts, homeValue : HomeValues, annualRate : {0, 120},
   annualPMIRate : {50}, monthlyPayment : LowPayments, loanTermMonths : {Null}]

\* the inputs of the calculateMortgageResults call that makes the PMI calls
\* of args: the other inputs are the defaults
MortgageInputsOf(a) ==
  [DEFAULT_MORTGAGE_INPUTS EXCEPT
     !.homePrice = a.homeValue,
     !.downPayment = a.homeValue - a.loanAmount,
     !.downPaymentPercent = MulDiv(a.homeValue - a.loanAmount, RateScale, a.homeValue),
     !.loanAmount = a.loanAmount,
     !.interestRate = a.annualRate,
     !.loanTermMonths = a.loanTermMonths,
     !.pmiRate = a.annualPMIRate]

InitPMI ==
  /\ op = "pmi"
  /\ args \in PMIArgs
  /\ pc = "start"
  /\ monthlyPayment = args.monthlyPayment
  /\ monthlyRate = 0
  /\ balance = 0
  /\ month = 0
  /\ cumulativePrincipal = 0
  /\ cumulativeInterest = 0
  /\ payments = <<>>
  /\ schedule = Null
  /\ summaries = <<>>
  /\ monthlyPMI = Null
  /\ pmiDropOffMonth = Null
  /\ InitTaxLocals
  /\ taxBenefits = Null
  /\ result = Null
  /\ InitBuydownLocals

\* tax benefit calls: a small loan whose yearly interest moves the itemized
\* total across the standard deduction, and two loans above the debt limits
SmallLoans ==
  [principal : {Dollars(20000)}, annualRate : {1200}, termMonths : {14, 26},
   startDate : {[year |-> 2025, month |-> 10, day |-> 15]},
   extraMonthly : {0}, extraYearly : {0}, extraYearlyMonth : {12}]

JumboLoans ==
  [principal : {Dollars(800000), Dollars(1010000)}, annualRate : {1200},
   termMonths : {14},
   startDate : {[year |-> 2025, month |-> 10, day |-> 15]},
   extraMonthly : {0}, extraYearly : {0}, extraYearlyMonth : {12}]

\* instants around the cutoff, and the day the loans start
OriginationDates ==
  {[year |-> 2017, month |-> 11, day |-> 14, minute |-> 1439],
   [year |-> 2017, month |-> 11, day |-> 15, minute |-> 0],
   [year |-> 2017, month |-> 11, day |-> 15, minute |-> 720],
   [year |-> 2017, month |-> 11, day |-> 15, minute |-> 1439],
   [year |-> 2017, month |-> 11, day |-> 16, minute |-> 0],
   [year |-> 2025, month |-> 10, day |-> 15, minute |-> 0]}

\* profiles of the small loans, originated the day the loan starts
SmallLoanProfiles ==
  [filingStatus : {"single", "married_filing_jointly"},
   annualIncome : {Dollars(150000)},
   marginalTaxRateOverride : {Null, 0, Percent(24)},
   stateTaxRate : {0, Percent(5)},
   stateAndLocalTaxes : {Dollars(10000), Dollars(45000)},
   charitableContributions : {Dollars(2000)},
   otherItemizedDeductions : {0, Dollars(2800), Dollars(3500), Dollars(6000)},
   mortgageOriginationDate : {[year |-> 2025, month |-> 10, day |-> 15, minute |-> 0]}]

\* profiles of the loans above the limits, originated around the cutoff
JumboLoanProfiles ==
  [filingStatus : {"single", "married_filing_jointly"},
   annualIncome : {Dollars(150000)},
   marginalTaxRateOverride : {Null, 0, Percent(24)},
   stateTaxRate : {Percent(5)},
   stateAndLocalTaxes : {Dollars(10000)},
   charitableContributions : {Dollars(2000)},
   otherItemizedDeductions : {0},
   mortgageOriginationDate : OriginationDates]

TaxArgs ==
  [loan : SmallLoans, profile : SmallLoanProfiles]
    \cup [loan : JumboLoans, profile : JumboLoanProfiles]

\* calculateTaxBenefits(schedule, loanAmount, profile) is about to be called on
\* the schedule of the loan
InitTax ==
  /\ op = "tax"
  /\ \E a \in TaxArgs :
       args = [loan |-> a.loan, loanAmount |-> a.loan.principal, profile |-> a.profile]
  /\ pc = "start"
  /\ schedule = generateAmortizationSchedule(args.loan)
  /\ monthlyPayment = schedule.monthlyPayment
  /\ monthlyRate = 0
  /\ balance = 0
  /\ month = 0
  /\ cumulativePrincipal = 0
  /\ cumulativeInterest = 0
  /\ payments = <<>>
  /\ summaries = <<>>
  /\ monthlyPMI = Null
  /\ pmiDropOffMonth = Null
  /\ InitTaxLocals
  /\ taxBenefits = Null
  /\ result = Null
  /\ InitBuydownLocals

\* the state of the calls that are not running
InitIdle ==
  /\ monthlyPayment = 0
  /\ monthlyRate = 0
  /\ balance = 0
  /\ month = 0
  /\ cumulativePrincipal = 0
  /\ cumulativeInterest = 0
  /\ payments = <<>>
  /\ schedule = Null
  /\ summaries = <<>>
  /\ monthlyPMI = Null
  /\ pmiDropOffMonth = Null
  /\ InitTaxLocals
  /\ taxBenefits = Null
  /\ result = Null
  /\ InitBuydownLocals

\* tax years before, at and after the base year
TaxYears == {2015, 2024, 2025, 2026, 2027, 2030, 2035}

\* incomes at, just below and just above every bracket edge of the year
EdgeIncomes(filingStatus, year) ==
  LET edges == {Dollars(bracket.min) :
                  bracket \in {getTaxYearConfig(year).brackets[filingStatus][k] :
                               k \in DOMAIN TAX_YEAR_2025.brackets[filingStatus]}}
      around == UNION {{e - 1, e, e + 1} : e \in edges}
  IN {x \in around : x >= 0} \cup {Dollars(2000000)}

MarginalRateArgs ==
  UNION {[income : EdgeIncomes(st, y), filingStatus : {st}, year : {y}] :
           st \in FilingStatuses, y \in TaxYears}

\* getMarginalTaxRate(income, filingStatus, year) is about to be called
InitMarginalRate ==
  /\ op = "rate"
  /\ args \in MarginalRateArgs
  /\ pc = "start"
  /\ InitIdle

ConfigArgs == [year : TaxYears]

InitConfig == /\ op = "config" /\ args \in ConfigArgs /\ pc = "start" /\ InitIdle

\* the default candidate list, and lists without 0, out of order, of one level
PointsOptionsSet ==
  {<<0, 50, 100, 150, 200, 250, 300>>, <<100, 0>>, <<300, 100, 200>>, <<100>>}

BuydownBaseInputs ==
  [loanAmount : {0, Dollars(400000)},
   baseInterestRate : {0, 650},
   loanTermMonths : {18, 360},
   rateReductionPerPoint : {25},
   isRefinance : BOOLEAN,
   expectedOwnershipYears : {2, 7, 30},
   marginalTaxRate : {Percent(24)}]

\* a one-month loan of $1,000,000 whose points pay back in exactly the year of
\* the stay: 1 point costs 1% and saves 1% of yearly interest
TiedBaseInputs ==
  [loanAmount : {Dollars(1000000)},
   baseInterestRate : {650},
   loanTermMonths : {1},
   rateReductionPerPoint : {100},
   isRefinance : {FALSE},
   expectedOwnershipYears : {1},
   marginalTaxRate : {Percent(24)}]

BuydownArgs ==
  [baseInputs : BuydownBaseInputs \cup TiedBaseInputs, pointsOptions : PointsOptionsSet]

InitBuydown == /\ op = "buydown" /\ args \in BuydownArgs /\ pc = "start" /\ InitIdle

\* the values typed into the form: amounts below, at and above the home price,
\* percentages up to and above 100
HomePriceInputs == {0, Dollars(250000), Dollars(400000)}
DownPaymentInputs == {0, Dollars(12345), Dollars(80000), Dollars(500000)}
DownPercentInputs == {0, 3500000, 20 * PctScale, 150 * PctScale}
InterestRateInputs == {700}

InputValues(key) ==
  IF key = "homePrice" THEN HomePriceInputs
  ELSE IF key = "downPayment" THEN DownPaymentInputs
  ELSE IF key = "downPaymentPercent" THEN DownPercentInputs
  ELSE InterestRateInputs

\* useState({ ...DEFAULT_MORTGAGE_INPUTS, ...initialInputs }), no initialInputs
InitHook == inputs = DEFAULT_MORTGAGE_INPUTS /\ updates = 0

InitInputs == /\ op = "inputs" /\ args = Null /\ pc = "idle" /\ InitIdle

Init ==
  /\ InitAmortization \/ InitPMI \/ InitTax \/ InitMarginalRate \/ InitConfig
       \/ InitBuydown \/ InitInputs
  /\ InitHook

\* generateAmortizationSchedule: one pass of the for loop
ScheduleStep ==
  /\ op = "schedule" /\ pc = "loop"
  /\ ScheduleContinues(Locals, args)
  /\ SetLocals(ScheduleBody(Locals, args))
  /\ UNCHANGED <<op, pc, args, schedule, summaries, pmiVars,
                 taxVars, result, buydownVars, hookVars>>

\* generateAmortizationSchedule: the loop is over, the schedule is returned
ScheduleDone ==
  /\ op = "schedule" /\ pc = "loop"
  /\ ~ScheduleContinues(Locals, args)
  /\ schedule' = ScheduleReturn(Locals, args)
  /\ pc' = "returned"
  /\ UNCHANGED <<op, args, monthlyPayment, monthlyRate, balance, cumulativePrincipal,
                 cumulativeInterest, payments, month, summaries, pmiVars,
                 taxVars, result, buydownVars, hookVars>>

\* generateAmortizationWithExtraPayments: one pass of the while loop
ExtraStep ==
  /\ op = "extra" /\ pc = "loop"
  /\ ExtraContinues(Locals, args)
  /\ SetLocals(ExtraBody(Locals, args))
  /\ UNCHANGED <<op, pc, args, schedule, summaries, pmiVars,
                 taxVars, result, buydownVars, hookVars>>

\* generateAmortizationWithExtraPayments: the loop is over
ExtraDone ==
  /\ op = "extra" /\ pc = "loop"
  /\ ~ExtraContinues(Locals, args)
  /\ schedule' = ExtraReturn(Locals, args)
  /\ pc' = "returned"
  /\ UNCHANGED <<op, args, monthlyPayment, monthlyRate, balance, cumulativePrincipal,
                 cumulativeInterest, payments, month, summaries, pmiVars,
                 taxVars, result, buydownVars, hookVars>>

\* generateYearlySummary(schedule)
Summarise ==
  /\ op \in {"schedule", "extra"} /\ pc = "returned"
  /\ summaries' = generateYearlySummary(schedule)
  /\ pc' = "summarised"
  /\ UNCHANGED <<op, args, monthlyPayment, monthlyRate, balance, cumulativePrincipal,
                 cumulativeInterest, payments, month, schedule, pmiVars,
                 taxVars, result, buydownVars, hookVars>>

\* calculateMonthlyPMI(loanAmount, homeValue, annualPMIRate)
MonthlyPMI ==
  /\ op = "pmi" /\ pc = "start"
  /\ monthlyPMI' = calculateMonthlyPMI(args.loanAmount, args.homeValue, args.annualPMIRate)
  /\ pc' = "dropoff"
  /\ UNCHANGED <<op, args, monthlyPayment, monthlyRate, balance, month,
                 ledgerVars, pmiDropOffMonth,
                 taxVars, result, buydownVars, hookVars>>

\* calculatePMIDropOffMonth: no PMI from the start, null is returned
PMIDropOffNone ==
  /\ op = "pmi" /\ pc = "dropoff"
  /\ PMINotRequired(args.loanAmount, args.homeValue)
  /\ pmiDropOffMonth' = Null
  /\ pc' = "returned"
  /\ UNCHANGED <<op, args, monthlyPayment, monthlyRate, balance, month,
                 ledgerVars, monthlyPMI,
                 taxVars, result, buydownVars, hookVars>>

\* calculatePMIDropOffMonth: the locals before the while loop
PMIDropOffEnter ==
  /\ op = "pmi" /\ pc = "dropoff"
  /\ ~PMINotRequired(args.loanAmount, args.homeValue)
  /\ monthlyRate' = MonthlyRate(args.annualRate)
  /\ balance' = args.loanAmount
  /\ month' = 0
  /\ pc' = "loop"
  /\ UNCHANGED <<op, args, monthlyPayment, ledgerVars, pmiVars,
                 taxVars, result, buydownVars, hookVars>>

\* calculatePMIDropOffMonth: one pass of the while loop
PMIDropOffStep ==
  /\ op = "pmi" /\ pc = "loop"
  /\ PMIContinues(balance, month, args.homeValue)
  /\ month' = month + 1
  /\ balance' = PMIBalanceAfter(balance, monthlyPayment, monthlyRate)
  /\ UNCHANGED <<op, pc, args, monthlyPayment, monthlyRate, ledgerVars, pmiVars,
                 taxVars, result, buydownVars, hookVars>>

\* calculatePMIDropOffMonth: "return month"
PMIDropOffDone ==
  /\ op = "pmi" /\ pc = "loop"
  /\ ~PMIContinues(balance, month, args.homeValue)
  /\ pmiDropOffMonth' = month
  /\ pc' = "returned"
  /\ UNCHANGED <<op, args, monthlyPayment, monthlyRate, balance, month,
                 ledgerVars, monthlyPMI,
                 taxVars, result, buydownVars, hookVars>>

\* calculateMortgageResults: the total PMI, the other amounts and the return,
\* once calculateMonthlyPMI and calculatePMIDropOffMonth have returned
MortgageResultsDone ==
  /\ op = "pmi" /\ pc = "returned" /\ args.loanTermMonths # Null
  /\ result' = MortgageResults(MortgageInputsOf(args), monthlyPayment, monthlyPMI,
                               pmiDropOffMonth)
  /\ pc' = "results"
  /\ UNCHANGED <<op, args, callVars>>

\* calculateTaxBenefits: the statements before the loop
TaxStart ==
  /\ op = "tax" /\ pc = "start"
  /\ summaries' = generateYearlySummary(schedule)
  /\ loanLimit' = Dollars(getMortgageDeductionLimit(args.profile.mortgageOriginationDate))
  /\ yearlyBreakdown' = <<>>
  /\ breakEvenYear' = Null
  /\ yearsOfItemization' = 0
  /\ loopIndex' = 0
  /\ pc' = "loop"
  /\ UNCHANGED <<op, args, monthlyPayment, monthlyRate, balance, month,
                 cumulativePrincipal, cumulativeInterest, payments, schedule,
                 pmiVars, taxBenefits, result, buydownVars, hookVars>>

\* calculateTaxBenefits: one pass of the loop over the year summaries
TaxYearStep ==
  /\ op = "tax" /\ pc = "loop"
  /\ loopIndex < Len(summaries)
  /\ LET entry == YearlyTaxBenefit(schedule, summaries, args.loanAmount,
                                   args.profile, loanLimit, loopIndex)
     IN /\ yearlyBreakdown' = Append(yearlyBreakdown, entry)
        /\ yearsOfItemization' =
             IF entry.shouldItemize THEN yearsOfItemization + 1 ELSE yearsOfItemization
        /\ breakEvenYear' =
             NextBreakEvenYear(entry.shouldItemize, breakEvenYear, yearsOfItemization,
                               loopIndex)
  /\ loopIndex' = loopIndex + 1
  /\ UNCHANGED <<op, pc, args, monthlyPayment, monthlyRate, balance, month,
                 ledgerVars, pmiVars, loanLimit, taxBenefits, result, buydownVars, hookVars>>

\* calculateTaxBenefits: the loop is over, the summary is returned
TaxDone ==
  /\ op = "tax" /\ pc = "loop"
  /\ loopIndex >= Len(summaries)
  /\ taxBenefits' = TaxBenefitSummary(yearlyBreakdown, args.loanAmount, breakEvenYear,
                                      yearsOfItemization)
  /\ pc' = "returned"
  /\ UNCHANGED <<op, args, monthlyPayment, monthlyRate, balance, month,
                 ledgerVars, pmiVars, loanLimit, yearlyBreakdown, breakEvenYear,
                 yearsOfItemization, loopIndex, result, buydownVars, hookVars>>

\* getMarginalTaxRate(income, filingStatus, year)
MarginalRate ==
  /\ op = "rate" /\ pc = "start"
  /\ result' = getMarginalTaxRate(args.income, args.filingStatus, args.year)
  /\ pc' = "returned"
  /\ UNCHANGED <<op, args, callVars>>

\* getTaxYearConfig(year)
TaxYearConfig ==
  /\ op = "config" /\ pc = "start"
  /\ result' = getTaxYearConfig(args.year)
  /\ pc' = "returned"
  /\ UNCHANGED <<op, args, callVars>>

\* buildBuydownComparison: the scenarios are built and findOptimalScenario is
\* entered
BuydownStart ==
  /\ op = "buydown" /\ pc = "start"
  /\ scenarios' = BuildScenarios(args.baseInputs, args.pointsOptions)
  /\ bestScenario' = scenarios'[1]
  /\ bestNetValue' = NegInfinity
  /\ scenarioIndex' = 1
  /\ pc' = "loop"
  /\ UNCHANGED <<op, args, monthlyPayment, monthlyRate, balance, month, ledgerVars,
                 pmiVars, taxVars, result, hookVars>>

\* findOptimalScenario: one turn of the for loop
FindOptimalStep ==
  /\ op = "buydown" /\ pc = "loop"
  /\ scenarioIndex <= Len(scenarios)
  /\ LET ownershipMonths == args.baseInputs.expectedOwnershipYears * 12
         scenario == scenarios[scenarioIndex]
         netValue == NetValue(scenario, ownershipMonths)
     IN IF Better(netValue, bestNetValue)
        THEN bestNetValue' = netValue /\ bestScenario' = scenario
        ELSE UNCHANGED <<bestNetValue, bestScenario>>
  /\ scenarioIndex' = scenarioIndex + 1
  /\ UNCHANGED <<op, pc, args, monthlyPayment, monthlyRate, balance, month, ledgerVars,
                 pmiVars, taxVars, result, scenarios, hookVars>>

\* findOptimalScenario returns and buildBuydownComparison returns the comparison
BuydownDone ==
  /\ op = "buydown" /\ pc = "loop"
  /\ scenarioIndex > Len(scenarios)
  /\ result' = [scenarios |-> scenarios,
                optimalScenario |-> bestScenario,
                recommendation |->
                  generateRecommendation(bestScenario,
                                         args.baseInputs.expectedOwnershipYears)]
  /\ pc' = "returned"
  /\ UNCHANGED <<op, args, callVars>>

\* useMortgageCalculator: updateInput(key, value)
updateInput ==
  /\ op = "inputs" /\ updates < MaxUpdates
  /\ \E key \in SyncedKeys \cup {"interestRate"} :
       \E value \in InputValues(key) :
         inputs' = UpdatedInputs(inputs, key, value)
  /\ updates' = updates + 1
  /\ UNCHANGED <<op, pc, args, monthlyPayment, monthlyRate, balance, month, ledgerVars,
                 pmiVars, taxVars, result, buydownVars>>

Next ==
  \/ ScheduleStep
  \/ ScheduleDone
  \/ ExtraStep
  \/ ExtraDone
  \/ Summarise
  \/ MonthlyPMI
  \/ PMIDropOffNone
  \/ PMIDropOffEnter
  \/ PMIDropOffStep
  \/ PMIDropOffDone
  \/ MortgageResultsDone
  \/ TaxStart
  \/ TaxYearStep
  \/ TaxDone
  \/ MarginalRate
  \/ TaxYearConfig
  \/ BuydownStart
  \/ FindOptimalStep
  \/ BuydownDone
  \/ updateInput

Spec == Init /\ [][Next]_vars

(***************************************************************************)
(* Claims                                                                  *)
(***************************************************************************)
Returned == pc # "loop"

LastPayment == payments[Len(payments)]

\* the balance outstanding before payment k of the ledger
BalanceBefore(k) == IF k = 1 THEN args.principal ELSE payments[k - 1].remainingBalance

\* rounding residue a ledger of n payments may carry: the rounding of the
\* monthly payment and of the interest, one unit each per payment
RoundingTolerance(n) == 2 * n

\* C1: in every ledger of generateAmortizationSchedule and of
\* generateAmortizationWithExtraPayments the recorded remainingBalance is never
\* negative, never above the original principal, and never rises from one
\* payment to the next.
C1_BalanceNeverRises ==
  op \in {"schedule", "extra"} =>
    \A k \in DOMAIN payments :
      /\ payments[k].remainingBalance >= 0
      /\ payments[k].remainingBalance <= args.principal
      /\ payments[k].remainingBalance <= BalanceBefore(k)

\* a standard ledger whose last raw balance was negative and was recorded as 0
C1_Witness ==
  /\ op = "schedule" /\ Returned
  /\ Len(payments) >= 2
  /\ balance < 0
  /\ LastPayment.remainingBalance = 0
  /\ payments[1].remainingBalance < args.principal

\* C2 as stated: a full-term standard schedule repays the principal within the
\* rounding tolerance and its last remainingBalance is 0.
C2_Original ==
  (op = "schedule" /\ Returned /\ args.termMonths > 0) =>
    /\ Len(payments) = args.termMonths
    /\ Abs(SumPrincipal(payments) - args.principal) <= RoundingTolerance(args.termMonths)
    /\ LastPayment.remainingBalance = 0

\* C2 (amended): a full-term standard schedule repays the principal within the
\* rounding tolerance, and its last remainingBalance is 0 within that tolerance:
\* never negative, and a positive rounding residue is recorded as it is.
C2_PrincipalRepaid ==
  (op = "schedule" /\ Returned /\ args.termMonths > 0) =>
    /\ Len(payments) = args.termMonths
    /\ Abs(SumPrincipal(payments) - args.principal) <= RoundingTolerance(args.termMonths)
    /\ LastPayment.remainingBalance >= 0
    /\ LastPayment.remainingBalance <= RoundingTolerance(args.termMonths)

\* a standard schedule at a positive rate that ends on a positive residue
C2_Witness ==
  /\ op = "schedule" /\ Returned
  /\ args.annualRate > 0 /\ args.termMonths >= 2
  /\ LastPayment.remainingBalance > 0

\* C3 (state part): a payment m of the extra-payment ledger is recorded only
\* if m <= termMonths and the balance before it was above 0.01; the ledger ends
\* at termMonths or at the first period that leaves a balance <= 0.01, and its
\* last recorded balance is <= 0.01.
C3_LedgerLength ==
  op = "extra" =>
    /\ Len(payments) <= args.termMonths
    /\ \A k \in DOMAIN payments :
         payments[k].paymentNumber = k /\ BalanceBefore(k) > PayoffThreshold
    /\ Returned =>
         /\ Len(payments) = args.termMonths \/ balance <= PayoffThreshold
         /\ payments # <<>> => LastPayment.remainingBalance <= PayoffThreshold

\* every step taken inside the while loop records one more payment, within
\* termMonths, or returns: the loop runs at most termMonths times
C3_LoopVariant ==
  (op = "extra" /\ pc = "loop") =>
    \/ pc' = "loop" /\ month' = month + 1 /\ month' <= args.termMonths
         /\ Len(payments') = month'
    \/ pc' = "returned" /\ schedule'.payments = payments

\* C3: generateAmortizationWithExtraPayments always terminates (each pass of
\* its loop advances month by one, up to termMonths, and then it returns), with
\* a ledger as long as the smaller of termMonths and the first period that
\* leaves a balance <= 0.01, and a last recorded balance <= 0.01.
C3_ExtraTerminates == [](C3_LedgerLength) /\ [][C3_LoopVariant]_vars

\* an early payoff: the ledger stops before termMonths
C3_Witness ==
  /\ op = "extra" /\ Returned
  /\ Len(payments) >= 2
  /\ Len(payments) < args.termMonths
  /\ balance <= PayoffThreshold

SmallerExtras ==
  {e \in ExtraMonthlySet \X ExtraYearlySet :
     e[1] <= args.extraMonthly /\ e[2] <= args.extraYearly}

WithExtras(e) == [args EXCEPT !.extraMonthly = e[1], !.extraYearly = e[2]]

\* C4: a schedule with extra payments never has more payments than the schedule
\* without them, and its totalInterest never exceeds that of a schedule with
\* smaller extra payments.
C4_ExtrasNeverCostMore ==
  (op = "extra" /\ Returned) =>
    /\ compareSchedules(generateAmortizationSchedule(args), schedule).monthsSaved >= 0
    /\ \A e \in SmallerExtras :
         LET smaller == generateAmortizationWithExtraPayments(WithExtras(e))
         IN /\ compareSchedules(smaller, schedule).interestSaved >= 0
            /\ e = <<0, 0>> => compareSchedules(smaller, schedule).monthsSaved >= 0

\* extra payments that saved both months and interest
C4_Witness ==
  /\ op = "extra" /\ Returned
  /\ args.extraMonthly > 0 /\ args.extraYearly > 0
  /\ LET plain == generateAmortizationWithExtraPayments(WithExtras(<<0, 0>>))
     IN /\ compareSchedules(plain, schedule).monthsSaved > 0
        /\ compareSchedules(plain, schedule).interestSaved > 0

RECURSIVE SumTotalPaid(_)
SumTotalPaid(ys) ==
  IF ys = <<>> THEN 0
  ELSE ys[1].principalPaid + ys[1].interestPaid + SumTotalPaid(Tail(ys))

\* every payment of the ledger falls in exactly one year summary, and the
\* summaries add up to the ledger
CountedOnce ==
  /\ \A k \in DOMAIN schedule.payments :
       Cardinality({j \in DOMAIN summaries :
          summaries[j].calendarYear = schedule.payments[k].paymentDate.year}) = 1
  /\ \A j \in DOMAIN summaries :
       /\ summaries[j].principalPaid =
            SumPrincipal(PaymentsOfYear(schedule.payments, summaries[j].calendarYear))
       /\ summaries[j].interestPaid =
            SumInterest(PaymentsOfYear(schedule.payments, summaries[j].calendarYear))
  /\ SumTotalPaid(summaries) =
       SumPrincipal(schedule.payments) + SumInterest(schedule.payments)

TotalsAgree ==
  Abs(SumTotalPaid(summaries) - schedule.totalPayments)
    <= RoundingTolerance(Len(schedule.payments))

\* C7 as stated: the year summaries add up to schedule.totalPayments, every
\* payment is counted once, and the two percentages of a year sum to 100, or
\* are both 0 when nothing was paid.
C7_Original ==
  pc = "summarised" =>
    /\ TotalsAgree
    /\ CountedOnce
    /\ \A j \in DOMAIN summaries :
         IF summaries[j].totalPaid = 0
         THEN summaries[j].principalPercent = 0 /\ summaries[j].interestPercent = 0
         ELSE summaries[j].principalPercent + summaries[j].interestPercent
                = 100 * PctScale

\* C7 (amended): for a term > 0 the year summaries add up to
\* schedule.totalPayments within tolerance, every payment is counted in exactly
\* one year summary, and the two percentages of a year sum to 100 within one
\* rounding unit, or are both 0 when nothing was paid.
C7_YearlyTotals ==
  (pc = "summarised" /\ args.termMonths > 0) =>
    /\ TotalsAgree
    /\ CountedOnce
    /\ \A j \in DOMAIN summaries :
         IF summaries[j].totalPaid = 0
         THEN summaries[j].principalPercent = 0 /\ summaries[j].interestPercent = 0
         ELSE Abs(summaries[j].principalPercent + summaries[j].interestPercent
                  - 100 * PctScale) <= 1

\* a ledger summarised over three calendar years, interest in each
C7_Witness ==
  /\ pc = "summarised"
  /\ Len(summaries) >= 3
  /\ \A j \in DOMAIN summaries :
       summaries[j].interestPaid > 0 /\ summaries[j].principalPaid > 0

\* loanAmount / homeValue <= 0.80, in whole numbers
LTVAtMost80 == 5 * args.loanAmount <= 4 * args.homeValue

\* C5 (result): calculatePMIDropOffMonth returns null exactly when
\* loanAmount / homeValue <= 0.80; otherwise it returns the number of passes of
\* its loop, a month in 1..360, at which the simulated balance is
\* <= 0.78 x homeValue, or 360.
C5_DropOffResult ==
  (op = "pmi" /\ pc = "returned") =>
    /\ pmiDropOffMonth = Null <=> LTVAtMost80
    /\ pmiDropOffMonth # Null =>
         /\ pmiDropOffMonth \in 1..PMIMaxMonths
         /\ pmiDropOffMonth = month
         /\ balance <= TargetBalance(args.homeValue) \/ pmiDropOffMonth = PMIMaxMonths

\* C5 (loop): a pass of the loop is made only while the balance is above
\* 0.78 x homeValue and fewer than 360 passes were made, and it counts one month:
\* the month returned is the smallest at which the balance is at or below the
\* target, and the loop ends within 360 passes.
C5_DropOffLoop ==
  (op = "pmi" /\ pc = "loop") =>
    \/ /\ pc' = "loop"
       /\ balance > TargetBalance(args.homeValue)
       /\ month < PMIMaxMonths
       /\ month' = month + 1
    \/ /\ pc' = "returned"
       /\ pmiDropOffMonth' = month
       /\ balance <= TargetBalance(args.homeValue) \/ month = PMIMaxMonths

\* C5: calculatePMIDropOffMonth returns null exactly when LTV <= 0.80, and
\* otherwise ends within 360 passes with the smallest month in 1..360 at which
\* the balance is <= 0.78 x homeValue, or 360 when it is not reached (also when
\* the payment does not cover the interest and the balance grows).
C5_PMIDropOff == [](C5_DropOffResult) /\ [][C5_DropOffLoop]_vars

\* the cap is returned for a loan whose payment does not cover the interest:
\* the balance grew and never reached the target
C5_Witness ==
  /\ op = "pmi" /\ pc = "returned"
  /\ pmiDropOffMonth = PMIMaxMonths
  /\ balance > args.loanAmount

\* a month below the cap is returned for a loan that reached the target
C5_TargetReached ==
  /\ op = "pmi" /\ pc = "returned"
  /\ pmiDropOffMonth \in 2..(PMIMaxMonths - 1)
  /\ balance <= TargetBalance(args.homeValue)

\* C6: calculateMonthlyPMI returns exactly 0 when loanAmount / homeValue <= 0.8,
\* the boundary included, and otherwise a value > 0 that is
\* loanAmount x (rate / 100) / 12: twelve of it make the yearly premium.
C6_MonthlyPMI ==
  (op = "pmi" /\ pc # "start") =>
    IF LTVAtMost80
    THEN monthlyPMI = 0
    ELSE /\ monthlyPMI > 0
         /\ Abs(12 * monthlyPMI
                - MulDiv(args.loanAmount, args.annualPMIRate, RatePerUnit)) <= 6

\* the boundary: a loan of exactly 80% of the home value pays no PMI
C6_Witness ==
  /\ op = "pmi" /\ pc # "start"
  /\ 5 * args.loanAmount = 4 * args.homeValue
  /\ monthlyPMI = 0

\* the entries of the breakdown that do not itemize after an earlier entry did
StandardAfterItemizing ==
  {k \in DOMAIN yearlyBreakdown :
     /\ ~yearlyBreakdown[k].shouldItemize
     /\ \E j \in 1..(k - 1) : yearlyBreakdown[j].shouldItemize}

\* C8: in calculateTaxBenefits a year itemizes if and only if its itemized total
\* (deductible interest, capped SALT, charity, other) is strictly above the
\* standard deduction of its tax year, a tie does not itemize, and a year that
\* does not itemize has federal, state and total tax savings of 0.
C8_ItemizeStrictly ==
  op = "tax" =>
    \A k \in DOMAIN yearlyBreakdown :
      LET y == yearlyBreakdown[k]
          config == getTaxYearConfig(y.calendarYear)
      IN /\ y.standardDeduction =
              Dollars(config.standardDeductions[args.profile.filingStatus])
         /\ y.totalItemizedDeductions =
              y.deductibleInterest
                + Min(args.profile.stateAndLocalTaxes, Dollars(config.saltCap))
                + args.profile.charitableContributions
                + args.profile.otherItemizedDeductions
         /\ y.shouldItemize <=> y.totalItemizedDeductions > y.standardDeduction
         /\ y.totalItemizedDeductions = y.standardDeduction => ~y.shouldItemize
         /\ ~y.shouldItemize =>
              /\ y.federalTaxSavings = 0
              /\ y.stateTaxSavings = 0
              /\ y.totalTaxSavings = 0

\* a breakdown with a tie year that takes the standard deduction and a year
\* that itemizes with federal and state savings
C8_Witness ==
  /\ op = "tax" /\ pc = "returned"
  /\ \E k \in DOMAIN yearlyBreakdown :
       /\ yearlyBreakdown[k].totalItemizedDeductions = yearlyBreakdown[k].standardDeduction
       /\ ~yearlyBreakdown[k].shouldItemize
  /\ \E k \in DOMAIN yearlyBreakdown :
       /\ yearlyBreakdown[k].shouldItemize
       /\ yearlyBreakdown[k].federalTaxSavings > 0
       /\ yearlyBreakdown[k].stateTaxSavings > 0

\* C9 (state part): breakEvenYear is non-null exactly when some year that does
\* not itemize comes after a year that itemizes, and it is then the 1-based
\* loan-year index of the first such year; the value returned is that one.
C9_BreakEvenIsFirst ==
  (op = "tax" /\ pc # "start") =>
    /\ breakEvenYear # Null <=> StandardAfterItemizing # {}
    /\ StandardAfterItemizing # {} =>
         /\ breakEvenYear \in StandardAfterItemizing
         /\ \A k \in StandardAfterItemizing : breakEvenYear <= k
         /\ yearlyBreakdown[breakEvenYear].year = breakEvenYear
    /\ pc = "returned" => taxBenefits.breakEvenYear = breakEvenYear

\* once set, breakEvenYear is not changed by a later year
C9_NeverChanged ==
  (op = "tax" /\ breakEvenYear # Null) => breakEvenYear' = breakEvenYear

\* C9: breakEvenYear is non-null if and only if some non-itemizing year follows
\* an itemizing year; it is the loan-year index of the first such year, later
\* years never change it, and non-itemizing years before the first itemizing
\* year never set it.
C9_BreakEvenYear == [](C9_BreakEvenIsFirst) /\ [][C9_NeverChanged]_vars

\* standard, itemize, standard, standard: the third year is the break-even year
C9_Witness ==
  /\ op = "tax" /\ pc = "returned"
  /\ Len(yearlyBreakdown) >= 4
  /\ ~yearlyBreakdown[1].shouldItemize
  /\ yearlyBreakdown[2].shouldItemize
  /\ ~yearlyBreakdown[3].shouldItemize
  /\ ~yearlyBreakdown[4].shouldItemize
  /\ taxBenefits.breakEvenYear = 3

\* the calendar day of the instant is 2017-12-15 or earlier
OnOrBeforeCutoffDay(d) ==
  \/ d.year < MORTGAGE_LIMIT_CUTOFF_DATE.year
  \/ /\ d.year = MORTGAGE_LIMIT_CUTOFF_DATE.year
     /\ \/ d.month < MORTGAGE_LIMIT_CUTOFF_DATE.month
        \/ /\ d.month = MORTGAGE_LIMIT_CUTOFF_DATE.month
           /\ d.day <= MORTGAGE_LIMIT_CUTOFF_DATE.day

\* C10: getMortgageDeductionLimit returns 1,000,000 for every origination date
\* on or before 2017-12-15, at any time of day of 2017-12-15 itself, and
\* 750,000 for every later origination date.
C10_LimitByOriginationDay ==
  (op = "tax" /\ pc # "start") =>
    loanLimit = IF OnOrBeforeCutoffDay(args.profile.mortgageOriginationDate)
                THEN Dollars(1000000)
                ELSE Dollars(750000)

\* the brackets of the lookup's year that contain the income: min <= income < max
ContainingBrackets ==
  LET brackets == getTaxYearConfig(args.year).brackets[args.filingStatus]
  IN {k \in DOMAIN brackets :
        /\ Dollars(brackets[k].min) <= args.income
        /\ brackets[k].max = Null \/ args.income < Dollars(brackets[k].max)}

\* C11: getMarginalTaxRate returns the rate of the one bracket with
\* min <= income < max (no max for the last bracket), for every filing status,
\* tax year and income >= 0; and every year of calculateTaxBenefits uses the
\* marginalTaxRateOverride when the profile has one, 0 included, and the lookup
\* otherwise.
C11_MarginalRate ==
  /\ (op = "rate" /\ pc = "returned") =>
       /\ Cardinality(ContainingBrackets) = 1
       /\ \A k \in ContainingBrackets :
            result =
              Percent(getTaxYearConfig(args.year).brackets[args.filingStatus][k].rate)
  /\ op = "tax" =>
       \A k \in DOMAIN yearlyBreakdown :
         yearlyBreakdown[k].marginalTaxRate =
           IF args.profile.marginalTaxRateOverride # Null
           THEN args.profile.marginalTaxRateOverride
           ELSE getMarginalTaxRate(args.profile.annualIncome, args.profile.filingStatus,
                                   yearlyBreakdown[k].calendarYear)

\* an income exactly on the lower edge of the 24% bracket of an extrapolated year
C11_Witness ==
  /\ op = "rate" /\ pc = "returned"
  /\ args.year = 2030
  /\ args.income =
       Dollars(getTaxYearConfig(args.year).brackets[args.filingStatus][4].min)
  /\ result = Percent(24)

\* an override of 0 used in a year that itemizes: no federal savings
C11_OverrideZeroUsed ==
  /\ op = "tax" /\ pc = "returned"
  /\ args.profile.marginalTaxRateOverride = 0
  /\ \E k \in DOMAIN yearlyBreakdown :
       /\ yearlyBreakdown[k].shouldItemize
       /\ yearlyBreakdown[k].marginalTaxRate = 0
       /\ yearlyBreakdown[k].federalTaxSavings = 0


\* C12: in every tax year configuration returned by getTaxYearConfig, the 2025
\* table and the extrapolated ones alike, the brackets of each filing status
\* are ordered by min ascending, the first min is 0, the last max is null and
\* each bracket's max is the next bracket's min.
BracketsContiguous(brackets) ==
  /\ brackets[1].min = 0
  /\ brackets[Len(brackets)].max = Null
  /\ \A k \in 1..(Len(brackets) - 1) :
       /\ brackets[k].min <= brackets[k + 1].min
       /\ brackets[k].max = brackets[k + 1].min

C12_BracketsContiguous ==
  (op = "config" /\ pc = "returned") =>
    \A st \in FilingStatuses : BracketsContiguous(result.brackets[st])

C12_Witness ==
  /\ op = "config" /\ pc = "returned" /\ args.year = 2030
  /\ result.brackets["single"][2].min > TAX_YEAR_2025.brackets["single"][2].min
  /\ result.brackets["single"][1].max = result.brackets["single"][2].min


\* 1.025^(Y - 2025) taken in exact arithmetic, 1.025 being exactly 1025/1000
ExactFactor(year) == Pow(1025 * (RateScale \div 1000), year - 2025)

\* base * 1.025^(Y - 2025) in whole dollars, rounded down
ExactProduct(base, year) == MulDivQR(base, ExactFactor(year), RateScale)[1]

\* value is the multiple of step that Math.round gives for the exact product
RoundedExactly(value, base, year, step) ==
  value = RoundToStep(base, ExactFactor(year), step)

\* value is a multiple of step within half a step of the exact product, up to
\* the rounding of the product itself (one dollar covers it)
NearestMultiple(value, base, year, step) ==
  /\ value % step = 0
  /\ 2 * Abs(value - ExactProduct(base, year)) <= step + 2

ConfigReturned == op = "config" /\ pc = "returned"

BaseBrackets(st) == TAX_YEAR_2025.brackets[st]

ConstantsKept ==
  /\ result.saltCap = TAX_YEAR_2025.saltCap
  /\ result.mortgageDebtLimit = TAX_YEAR_2025.mortgageDebtLimit

\* C13 as stated: every extrapolated standard deduction is
\* round(base * 1.025^(Y - 2025) / 50) * 50 and every finite bracket edge is
\* round(base * 1.025^(Y - 2025) / 25) * 25, the arithmetic taken exactly.
C13_Original ==
  (ConfigReturned /\ args.year # 2025) =>
    \A st \in FilingStatuses :
      /\ RoundedExactly(result.standardDeductions[st],
                        TAX_YEAR_2025.standardDeductions[st], args.year, 50)
      /\ \A k \in DOMAIN BaseBrackets(st) :
           /\ RoundedExactly(result.brackets[st][k].min, BaseBrackets(st)[k].min, args.year, 25)
           /\ BaseBrackets(st)[k].max # Null =>
                RoundedExactly(result.brackets[st][k].max, BaseBrackets(st)[k].max, args.year, 25)

\* What the extrapolation does guarantee (C13 short of the exact rounding): for a
\* year other than 2025 every standard deduction is a
\* multiple of 50 and every finite bracket edge a multiple of 25 lying within
\* half a step of base * 1.025^(Y - 2025), up to the floating-point rounding of
\* that product (at an exact tie the lower multiple may be returned); the SALT
\* cap and the mortgage debt limit are those of 2025; the 2030 married-joint
\* standard deduction is 33950; the year 2025 returns the base table itself.
C13_Extrapolation ==
  ConfigReturned =>
    IF args.year = 2025 THEN result = TAX_YEAR_2025
    ELSE /\ ConstantsKept
         /\ result.year = args.year
         /\ args.year = 2030 => result.standardDeductions["married_filing_jointly"] = 33950
         /\ \A st \in FilingStatuses :
              /\ NearestMultiple(result.standardDeductions[st],
                                 TAX_YEAR_2025.standardDeductions[st], args.year, 50)
              /\ \A k \in DOMAIN BaseBrackets(st) :
                   /\ NearestMultiple(result.brackets[st][k].min,
                                      BaseBrackets(st)[k].min, args.year, 25)
                   /\ result.brackets[st][k].rate = BaseBrackets(st)[k].rate
                   /\ IF BaseBrackets(st)[k].max = Null
                      THEN result.brackets[st][k].max = Null
                      ELSE NearestMultiple(result.brackets[st][k].max,
                                           BaseBrackets(st)[k].max, args.year, 25)

\* the 2026 table, where 15000 * 1.025 = 15375 is an exact tie between
\* 15350 and 15400
C13_Witness ==
  /\ ConfigReturned /\ args.year = 2026
  /\ ExactProduct(TAX_YEAR_2025.standardDeductions["single"], 2026) = 15375
  /\ result.standardDeductions["single"] = 15350
  /\ result.standardDeductions["married_filing_jointly"] = 30750

\* the exact reading fails on the 2026 single standard deduction
C13_TieRoundsDown ==
  (ConfigReturned /\ args.year = 2026) =>
    RoundedExactly(result.standardDeductions["single"],
                   TAX_YEAR_2025.standardDeductions["single"], 2026, 50)


\* the balance at the start of year k of the breakdown (k from 1): loanAmount
\* for the first year, the previous year's ending balance after it
StartOfYearBalance(k) ==
  IF k = 1 THEN args.loan.principal ELSE summaries[k - 1].endingBalance

AverageBalance(k) == Half(StartOfYearBalance(k) + summaries[k].endingBalance)

\* (interest - savings) / average balance * 100, and 0 when the average is <= 0
EffectiveRateWith(k, savings) ==
  IF AverageBalance(k) <= 0 THEN 0
  ELSE MulDiv(yearlyBreakdown[k].interestPaid - savings, 100 * PctScale, AverageBalance(k))

\* C14: for every year of calculateTaxBenefits, effectiveInterestRate is (the
\* year's interest paid minus the year's totalTaxSavings) divided by the average
\* of the start-of-year and end-of-year balance, times 100, and 0 when that
\* average is <= 0; the start-of-year balance is the previous year's ending
\* balance (loanAmount for the first year).
C14_EffectiveRate ==
  op = "tax" =>
    \A k \in DOMAIN yearlyBreakdown :
      yearlyBreakdown[k].effectiveInterestRate =
        EffectiveRateWith(k, yearlyBreakdown[k].totalTaxSavings)

\* what the code credits instead: the federal savings alone
C14_FederalSavingsOnly ==
  op = "tax" =>
    \A k \in DOMAIN yearlyBreakdown :
      yearlyBreakdown[k].effectiveInterestRate =
        EffectiveRateWith(k, yearlyBreakdown[k].federalTaxSavings)

\* an itemizing year with state tax savings
C14_StateSavingsYear ==
  /\ op = "tax" /\ pc = "returned"
  /\ \E k \in DOMAIN yearlyBreakdown :
       /\ yearlyBreakdown[k].shouldItemize
       /\ yearlyBreakdown[k].stateTaxSavings > 0
       /\ yearlyBreakdown[k].effectiveInterestRate >
            EffectiveRateWith(k, yearlyBreakdown[k].totalTaxSavings)


\* months is cost / savings: multiplied back by the savings it gives the cost,
\* up to the rounding of the quotient
IsQuotient(months, cost, savings) ==
  /\ months \notin {Infinity, NegInfinity, NaN}
  /\ Abs(MulDiv(months, savings, NumberScale) - cost) <= savings \div (2 * NumberScale) + 1

BreakEvenOf(months, cost, savings) ==
  IF savings <= 0 THEN months = Infinity ELSE IsQuotient(months, cost, savings)

\* C15: calculateBreakEvenMonths returns Infinity whenever monthlySavings <= 0
\* and cost / monthlySavings otherwise; a scenario built with numberOfPoints = 0
\* has pointsCostDollars = 0, boughtDownRate = originalRate, monthlySavings = 0
\* and breakEvenMonths = Infinity.
C15_BreakEvenMonths ==
  op = "buydown" =>
    \A k \in DOMAIN scenarios :
      LET scenario == scenarios[k]
      IN /\ BreakEvenOf(scenario.breakEvenMonths, scenario.pointsCostDollars,
                        scenario.monthlySavings)
         /\ BreakEvenOf(scenario.adjustedBreakEvenMonths, scenario.effectiveCostAfterTax,
                        scenario.monthlySavings)
         /\ scenario.numberOfPoints = 0 =>
              /\ scenario.pointsCostDollars = 0
              /\ scenario.boughtDownRate = scenario.originalRate
              /\ scenario.monthlySavings = 0
              /\ scenario.breakEvenMonths = Infinity

\* a comparison with the no-points scenario (never breaking even) and a
\* scenario whose points pay off after a finite, positive number of months
C15_Witness ==
  /\ op = "buydown" /\ pc = "returned"
  /\ \E k \in DOMAIN scenarios :
       scenarios[k].numberOfPoints = 0 /\ scenarios[k].breakEvenMonths = Infinity
  /\ \E k \in DOMAIN scenarios :
       /\ scenarios[k].monthlySavings > 0
       /\ scenarios[k].breakEvenMonths > 0
       /\ scenarios[k].breakEvenMonths < Infinity


\* loanTermMonths / 12 of the comparison under way
LoanTermYears == MulDiv(args.baseInputs.loanTermMonths, NumberScale, 12)

\* slice is cost / years: taken once per year of the term it adds up to the
\* cost, up to the rounding of the quotient
IsYearlySlice(slice, cost, years) ==
  Abs(MulDiv(slice, years, NumberScale) - cost) <= years \div (2 * NumberScale) + 1

\* C16: calculatePointsTaxDeduction gives, for a purchase loan,
\* firstYearDeduction = totalDeduction = pointsCost; for a refinance,
\* deductionPerYear = pointsCost / loanTermYears, firstYearDeduction equal to
\* one such yearly slice (not the full cost) and totalDeduction = pointsCost;
\* buildBuydownScenario uses firstYearDeduction as taxDeductibleAmount.
C16_PointsTaxDeduction ==
  op = "buydown" =>
    \A k \in DOMAIN scenarios :
      LET cost == scenarios[k].pointsCostDollars
          isRefinance == args.baseInputs.isRefinance
          deduction == calculatePointsTaxDeduction(cost, isRefinance, LoanTermYears)
      IN /\ deduction.totalDeduction = cost
         /\ ~isRefinance =>
              /\ deduction.firstYearDeduction = cost
              /\ scenarios[k].taxDeductibleAmount = cost
         /\ isRefinance =>
              /\ IsYearlySlice(deduction.deductionPerYear, cost, LoanTermYears)
              /\ deduction.firstYearDeduction = deduction.deductionPerYear
              /\ IsYearlySlice(scenarios[k].taxDeductibleAmount, cost, LoanTermYears)
              /\ (cost > 0 /\ LoanTermYears > NumberScale) =>
                   scenarios[k].taxDeductibleAmount < cost

\* a 30-year refinance with one point on 400000: a slice of 4000 / 30
C16_Witness ==
  /\ op = "buydown" /\ pc = "returned"
  /\ args.baseInputs.isRefinance /\ args.baseInputs.loanTermMonths = 360
  /\ \E k \in DOMAIN scenarios :
       /\ scenarios[k].pointsCostDollars = Dollars(4000)
       /\ scenarios[k].taxDeductibleAmount = 133333

\* the purchase case: the whole cost in the first year
C16_PurchaseWitness ==
  /\ op = "buydown" /\ pc = "returned" /\ ~args.baseInputs.isRefinance
  /\ \E k \in DOMAIN scenarios :
       /\ scenarios[k].pointsCostDollars = Dollars(4000)
       /\ scenarios[k].taxDeductibleAmount = Dollars(4000)


\* the net value of candidate k at the expected ownership duration
NetValueOf(k) == NetValue(scenarios[k], args.baseInputs.expectedOwnershipYears * 12)

\* candidate i is the first one of the largest net value
FirstOfTheBest(i) ==
  /\ \A j \in DOMAIN scenarios : NetValueOf(j) <= NetValueOf(i)
  /\ \A j \in 1..(i - 1) : NetValueOf(j) < NetValueOf(i)

\* C17: for a non-empty candidate list, the optimalScenario returned by
\* buildBuydownComparison/findOptimalScenario is one of the built scenarios,
\* its net value monthlySavings * ownershipMonths - pointsCostDollars is >= that
\* of every other scenario, and every scenario earlier in the candidate order
\* has a strictly smaller net value (ties keep the earliest candidate).
C17_OptimalScenario ==
  (op = "buydown" /\ pc = "returned") =>
    /\ result.scenarios = scenarios
    /\ Len(scenarios) = Len(args.pointsOptions)
    /\ \E i \in DOMAIN scenarios :
         result.optimalScenario = scenarios[i] /\ FirstOfTheBest(i)

\* the best so far is the first of the best among the candidates scanned
C17_BestSoFar ==
  (op = "buydown" /\ pc = "loop" /\ scenarioIndex > 1) =>
    \E i \in 1..(scenarioIndex - 1) :
      /\ bestScenario = scenarios[i]
      /\ bestNetValue = NetValueOf(i)
      /\ \A j \in 1..(scenarioIndex - 1) : NetValueOf(j) <= NetValueOf(i)
      /\ \A j \in 1..(i - 1) : NetValueOf(j) < NetValueOf(i)

\* a tie between different scenarios (a loan amount of 0 makes every net value
\* 0): the first candidate is kept
C17_Witness ==
  /\ op = "buydown" /\ pc = "returned"
  /\ Len(scenarios) > 1
  /\ NetValueOf(1) = NetValueOf(2)
  /\ scenarios[1] # scenarios[2]
  /\ result.optimalScenario = scenarios[1]

\* a later candidate wins: the most points over a long ownership
C17_LaterCandidateWins ==
  /\ op = "buydown" /\ pc = "returned"
  /\ Len(scenarios) = 7
  /\ result.optimalScenario = scenarios[7]
  /\ NetValueOf(7) > NetValueOf(1)


\* the payments calculateMonthlyPayment has returned in the call under way,
\* each with the principal, rate and term it was computed from
PaymentsComputed ==
  IF op \in {"schedule", "extra"}
  THEN {[payment |-> monthlyPayment, principal |-> args.principal,
         annualRate |-> args.annualRate, termMonths |-> args.termMonths]}
  ELSE IF op = "buydown"
  THEN UNION {{[payment |-> scenarios[k].originalMonthlyPayment,
                principal |-> args.baseInputs.loanAmount,
                annualRate |-> scenarios[k].originalRate,
                termMonths |-> args.baseInputs.loanTermMonths],
               [payment |-> scenarios[k].boughtDownMonthlyPayment,
                principal |-> args.baseInputs.loanAmount,
                annualRate |-> scenarios[k].boughtDownRate,
                termMonths |-> args.baseInputs.loanTermMonths]} :
                 k \in DOMAIN scenarios}
  ELSE {}

\* C18: for principal > 0, rate >= 0 and term > 0, calculateMonthlyPayment
\* times the term is at least the principal (total interest is never
\* negative), and at rate 0 the payment is principal / term.
C18_TotalInterestNotNegative ==
  \A c \in PaymentsComputed :
    (c.principal > 0 /\ c.annualRate >= 0 /\ c.termMonths > 0) =>
      /\ calculateTotalInterest(c.principal, c.payment, c.termMonths) >= 0
      /\ c.annualRate = 0 => 2 * Abs(c.payment * c.termMonths - c.principal) <= c.termMonths

\* short of the rounding of the payment, the statement holds for the rates
\* enumerated (0 and rates of a few percent)
C18_WithinRounding ==
  \A c \in PaymentsComputed :
    (c.principal > 0 /\ c.annualRate >= 0 /\ c.termMonths > 0) =>
      /\ 2 * calculateTotalInterest(c.principal, c.payment, c.termMonths) >= -c.termMonths
      /\ c.annualRate = 0 => 2 * Abs(c.payment * c.termMonths - c.principal) <= c.termMonths

\* an interest-free loan whose payments add up to less than the principal
C18_ZeroRateShortfall ==
  \E c \in PaymentsComputed :
    /\ c.principal > 0 /\ c.annualRate = 0
    /\ c.payment * c.termMonths < c.principal


\* no payment of the ledger repays more principal than was outstanding, give
\* or take slack, and the running balance is not below -slack
NeverOverpays(slack) ==
  /\ balance >= -slack
  /\ \A k \in DOMAIN payments : payments[k].principal <= BalanceBefore(k) + slack

\* C20 as stated: in both variants the principal portion of every payment is at
\* most the balance outstanding before it, so the unclamped balance never goes
\* below 0.
C20_Original ==
  op \in {"schedule", "extra"} => NeverOverpays(0)

\* C20 (amended): with extra payments the principal portion of every payment
\* is at most the balance outstanding before it and the balance never goes
\* below 0; in the standard variant the principal portion is not capped and
\* may exceed the balance before the step, the unclamped balance going below
\* 0, by no more than a rounding residue.
C20_NeverOverpay ==
  /\ op = "extra" => NeverOverpays(0)
  /\ op = "schedule" => NeverOverpays(RoundingTolerance(args.termMonths))

\* an early payoff: the extras would repay more than is outstanding and the
\* last principal portion is cut down to the balance
C20_Witness ==
  /\ op = "extra" /\ Returned
  /\ Len(payments) >= 1 /\ Len(payments) < args.termMonths
  /\ balance = 0
  /\ LastPayment.principal = BalanceBefore(Len(payments))
  /\ LastPayment.principal <
       ExtraPrincipal(monthlyPayment, LastPayment.interest, args, Len(payments))

\* a standard ledger whose last principal portion exceeds the balance before it
C20_StandardOverpays ==
  /\ op = "schedule" /\ Returned
  /\ LastPayment.principal > BalanceBefore(Len(payments))
  /\ balance < 0


\* the annual lump sum was added to the principal portion of period k, before
\* the overpayment cap
LumpSumAdded(k) ==
  ExtraPrincipal(monthlyPayment, payments[k].interest, args, k) =
    monthlyPayment - payments[k].interest + args.extraMonthly + args.extraYearly

\* the calendar month of year (1-12) of the payment date of period k
CalendarMonth(k) == payments[k].paymentDate.month + 1

\* C21: with extraYearly > 0 the annual lump sum is added in period i exactly
\* when the calendar month of year (1-12) of that period's payment date (the
\* start date advanced by i months, with year rollover) equals
\* extraYearlyMonth.
C21_LumpSumInPaymentMonth ==
  (op = "extra" /\ args.extraYearly > 0) =>
    \A k \in DOMAIN payments : LumpSumAdded(k) <=> CalendarMonth(k) = args.extraYearlyMonth

\* the lump sum of month 1 goes to the first payment of a loan starting in
\* January, which is dated in February
C21_LumpSumOneMonthLate ==
  /\ op = "extra" /\ args.extraYearly > 0 /\ args.extraYearlyMonth = 1
  /\ args.startDate.month = 0
  /\ Len(payments) >= 1
  /\ LumpSumAdded(1)
  /\ CalendarMonth(1) = 2


\* C22: generateAmortizationSchedule performs exactly termMonths iterations
\* with no early exit: its ledger has termMonths entries whose paymentNumber
\* values are 1, 2, ..., termMonths in order, each with a gross payment equal to
\* the base monthly payment (termMonths = 0 yields an empty ledger).
C22_FixedIterations ==
  op = "schedule" =>
    /\ Len(payments) <= args.termMonths
    /\ \A k \in DOMAIN payments :
         /\ payments[k].paymentNumber = k
         /\ payments[k].payment = monthlyPayment
    /\ Returned =>
         /\ Len(schedule.payments) = args.termMonths
         /\ schedule.payments = payments
         /\ schedule.monthlyPayment = monthlyPayment

\* a ledger that runs its whole term although the balance was at or under a
\* cent from the start
C22_Witness ==
  /\ op = "schedule" /\ Returned
  /\ args.principal <= PayoffThreshold
  /\ args.termMonths >= 3
  /\ Len(schedule.payments) = args.termMonths
  /\ LastPayment.paymentNumber = args.termMonths

\* a term of 0: an empty ledger
C22_EmptyLedger ==
  /\ op = "schedule" /\ Returned
  /\ args.termMonths = 0
  /\ schedule.payments = <<>>


\* the standard ledger of the loan of the PMI call under way, over term months
LedgerOfLoan(term) ==
  generateAmortizationSchedule(
    [principal |-> args.loanAmount, annualRate |-> args.annualRate, termMonths |-> term,
     startDate |-> [year |-> 2025, month |-> 0, day |-> 15],
     extraMonthly |-> 0, extraYearly |-> 0, extraYearlyMonth |-> 12]).payments

\* the paymentNumber of the first entry of the ledger at or under the 78% target
FirstEntryAtTarget(ledger) ==
  LET reached == {k \in DOMAIN ledger :
                    ledger[k].remainingBalance <= TargetBalance(args.homeValue)}
  IN IF reached = {} THEN Null
     ELSE ledger[CHOOSE k \in reached : \A j \in reached : k <= j].paymentNumber

\* the terms, of at most four years, whose amortizing payment is the payment
\* of the call under way
TermsOfPayment ==
  {t \in {u \in PMITerms : u <= 48} :
     calculateMonthlyPayment(args.loanAmount, args.annualRate, t) = args.monthlyPayment}

\* C23: for a loan with LTV > 0.80, term <= 360 and monthlyPayment =
\* calculateMonthlyPayment(loanAmount, rate, term), calculatePMIDropOffMonth
\* equals the paymentNumber of the first entry of generateAmortizationSchedule
\* whose remainingBalance is <= 0.78 x homeValue.
C23_DropOffMatchesLedger ==
  (op = "pmi" /\ pc = "returned" /\ ~LTVAtMost80) =>
    \A t \in TermsOfPayment : pmiDropOffMonth = FirstEntryAtTarget(LedgerOfLoan(t))

\* a 95% loan over 4 years at 6.5%: PMI drops after some months of payments
C23_Witness ==
  /\ op = "pmi" /\ pc = "returned"
  /\ args.loanAmount = Dollars(380000) /\ args.annualRate = 650
  /\ 48 \in TermsOfPayment
  /\ pmiDropOffMonth > 1 /\ pmiDropOffMonth < 48
  /\ pmiDropOffMonth = FirstEntryAtTarget(LedgerOfLoan(48))


\* date d is not later than date e
NotLater(d, e) ==
  \/ d.year < e.year
  \/ d.year = e.year /\ d.month < e.month
  \/ d.year = e.year /\ d.month = e.month /\ d.day <= e.day

\* payment k is the latest payment of the ledger falling in calendar year y
LatestOfYear(k, y) ==
  /\ schedule.payments[k].paymentDate.year = y
  /\ \A i \in DOMAIN schedule.payments :
       schedule.payments[i].paymentDate.year = y =>
         /\ i <= k
         /\ NotLater(schedule.payments[i].paymentDate, schedule.payments[k].paymentDate)

\* C24: generateYearlySummary returns one summary per distinct calendar year
\* of the payment dates, in strictly ascending calendarYear order, with year
\* indices 1, 2, ..., k; each endingBalance is the remainingBalance of the latest
\* payment of that calendar year, so endingBalance is non-increasing across
\* summaries and the last one is the ledger's final remainingBalance.
C24_YearlySummaries ==
  pc = "summarised" =>
    /\ {summaries[j].calendarYear : j \in DOMAIN summaries} = YearKeys(schedule.payments)
    /\ Len(summaries) = Cardinality(YearKeys(schedule.payments))
    /\ \A j \in DOMAIN summaries :
         /\ summaries[j].year = j
         /\ \E k \in DOMAIN schedule.payments :
              /\ LatestOfYear(k, summaries[j].calendarYear)
              /\ summaries[j].endingBalance = schedule.payments[k].remainingBalance
    /\ \A j \in 1..(Len(summaries) - 1) :
         /\ summaries[j].calendarYear < summaries[j + 1].calendarYear
         /\ summaries[j].endingBalance >= summaries[j + 1].endingBalance
    /\ summaries # <<>> =>
         summaries[Len(summaries)].endingBalance =
           schedule.payments[Len(schedule.payments)].remainingBalance

\* a ledger over three calendar years with a falling year-end balance
C24_Witness ==
  /\ pc = "summarised"
  /\ Len(summaries) = 3
  /\ summaries[1].endingBalance > summaries[2].endingBalance
  /\ summaries[2].endingBalance > summaries[3].endingBalance
  /\ summaries[3].year = 3


\* the first k entries of the ledger built so far
LedgerPrefix(k) == SubSeq(payments, 1, k)

\* the cumulative fields of entry k are the sums over payments 1..k
RunningSums(k) ==
  /\ payments[k].cumulativePrincipal = SumPrincipal(LedgerPrefix(k))
  /\ payments[k].cumulativeInterest = SumInterest(LedgerPrefix(k))

\* what entry k accounts for beyond the original principal
ConservationError(k) ==
  payments[k].cumulativePrincipal + payments[k].remainingBalance - args.principal

\* C25 as stated: in every ledger entry of both variants the cumulative fields
\* are the running sums of payments 1..k, and cumulativePrincipal plus the
\* balance after payment k equals the original principal.
C25_Original ==
  op \in {"schedule", "extra"} =>
    \A k \in DOMAIN payments : RunningSums(k) /\ ConservationError(k) = 0

\* C25 (amended): in every ledger entry of both variants the cumulative fields
\* are the running sums of payments 1..k, and cumulativePrincipal plus the
\* balance after payment k equals the original principal within the rounding
\* tolerance.
C25_PrincipalConserved ==
  op \in {"schedule", "extra"} =>
    \A k \in DOMAIN payments :
      /\ RunningSums(k)
      /\ Abs(ConservationError(k)) <= RoundingTolerance(args.termMonths)

\* a ledger that conserves the principal exactly at its first entries and only
\* within the tolerance at its last one
C25_Witness ==
  /\ op \in {"schedule", "extra"} /\ Returned
  /\ Len(payments) >= 3
  /\ \A k \in 1..(Len(payments) - 1) : ConservationError(k) = 0
  /\ ConservationError(Len(payments)) > 0
  /\ payments[2].cumulativeInterest > payments[1].cumulativeInterest


\* the extra-payment generator was called with no extra payment at all
NoExtras == op = "extra" /\ Returned /\ args.extraMonthly = 0 /\ args.extraYearly = 0

\* the standard ledger of the same principal, rate, term and start date
Standard == generateAmortizationSchedule(args)

\* the two ledgers agree within d on the totals and on the four amounts of
\* every payment
SameLedger(d) ==
  /\ Len(schedule.payments) = Len(Standard.payments)
  /\ \A k \in DOMAIN schedule.payments :
       k \in DOMAIN Standard.payments =>
         /\ Abs(schedule.payments[k].principal - Standard.payments[k].principal) <= d
         /\ Abs(schedule.payments[k].interest - Standard.payments[k].interest) <= d
         /\ Abs(schedule.payments[k].payment - Standard.payments[k].payment) <= d
         /\ Abs(schedule.payments[k].remainingBalance
                  - Standard.payments[k].remainingBalance) <= d
  /\ Standard.totalInterest # NaN /\ Standard.totalPayments # NaN
  /\ Abs(schedule.totalInterest - Standard.totalInterest) <= d
  /\ Abs(schedule.totalPayments - Standard.totalPayments) <= d

\* the standard ledger owes more than 0.01 before each of its payments
OwedBeforeEveryPayment ==
  /\ args.principal > PayoffThreshold
  /\ \A k \in 1..(Len(Standard.payments) - 1) :
       Standard.payments[k].remainingBalance > PayoffThreshold

\* C26 as stated: with no extra payments the extra-payment generator returns
\* the ledger of the standard generator: as many payments, the same four
\* amounts per payment, the same totalInterest and totalPayments.
C26_Original == NoExtras => SameLedger(0)

\* C26 (amended): for a term > 0 whose standard ledger owes more than 0.01
\* before each payment, the ledger without extras has as many payments as the
\* standard ledger, and the four amounts of every payment and the two totals
\* are the same within the rounding tolerance.
C26_SameLedger ==
  (NoExtras /\ args.termMonths > 0 /\ OwedBeforeEveryPayment) =>
    SameLedger(RoundingTolerance(args.termMonths))

\* a ledger without extras whose last principal was capped at the balance,
\* one unit below the standard ledger's
C26_Witness ==
  /\ NoExtras /\ args.termMonths >= 2 /\ OwedBeforeEveryPayment
  /\ Len(schedule.payments) = args.termMonths
  /\ schedule.payments[args.termMonths].principal
       < Standard.payments[args.termMonths].principal
  /\ schedule.totalPayments < Standard.totalPayments


\* one cent: the slack allowed to the products and quotients of the sync
SyncTolerance == MoneyScale \div 100

\* the three amounts of the form agree with each other within the slack d
InputsConsistent(d) ==
  /\ Abs(inputs.loanAmount - (inputs.homePrice - inputs.downPayment)) <= d
  /\ Abs(inputs.downPayment - Mul(inputs.homePrice, inputs.downPaymentPercent)) <= d

\* C27: from the default inputs, after any sequence of updateInput calls on
\* homePrice, downPayment and downPaymentPercent with values >= 0, loanAmount =
\* homePrice - downPayment and downPayment = homePrice x downPaymentPercent /
\* 100 (each within a cent), and loanAmount >= 0.
C27_InputsConsistent ==
  op = "inputs" => (InputsConsistent(SyncTolerance) /\ inputs.loanAmount >= 0)

\* the part of C27 that the code keeps: loanAmount = homePrice - downPayment
C27_LoanAmountSynced ==
  op = "inputs" =>
    Abs(inputs.loanAmount - (inputs.homePrice - inputs.downPayment)) <= SyncTolerance

\* one update from the defaults: a down payment above the home price
C27_NegativeLoanAmount ==
  /\ op = "inputs" /\ updates = 1
  /\ inputs.homePrice = DEFAULT_MORTGAGE_INPUTS.homePrice
  /\ inputs.downPayment = Dollars(500000)
  /\ inputs.loanAmount = -Dollars(100000)
  /\ inputs.downPaymentPercent = 125 * PctScale


\* calculateMortgageResults has returned, for a home price, a loan amount and
\* a PMI rate above 0
ResultsOfPositiveInputs ==
  /\ op = "pmi" /\ pc = "results"
  /\ args.homeValue > 0 /\ args.loanAmount > 0 /\ args.annualPMIRate > 0

\* C28: in the results of calculateMortgageResults with homePrice > 0,
\* loanAmount > 0 and pmiRate > 0, monthlyPMI = 0 iff pmiDropOffMonth is null
\* iff totalPMIPaid = 0; and when PMI applies, totalPMIPaid is monthlyPMI x
\* pmiDropOffMonth with pmiDropOffMonth >= 1.
C28_PMIOutputsAgree ==
  ResultsOfPositiveInputs =>
    /\ result.monthlyPMI = 0 <=> result.pmiDropOffMonth = Null
    /\ result.pmiDropOffMonth = Null <=> result.totalPMIPaid = 0
    /\ result.monthlyPMI # 0 =>
         /\ result.pmiDropOffMonth >= 1
         /\ result.totalPMIPaid = result.monthlyPMI * result.pmiDropOffMonth

\* results with PMI that drops off after the first year and before the cap
C28_Witness ==
  /\ ResultsOfPositiveInputs
  /\ result.monthlyPMI > 0
  /\ result.pmiDropOffMonth > 12 /\ result.pmiDropOffMonth < PMIMaxMonths
  /\ result.totalPMIPaid > 12 * result.monthlyPMI

\* results without PMI, at a loan-to-value of exactly 0.8
C28_NoPMIWitness ==
  /\ ResultsOfPositiveInputs
  /\ calculateLTV(args.loanAmount, args.homeValue) = PMIRequiredLTV
  /\ result.monthlyPMI = 0 /\ result.pmiDropOffMonth = Null /\ result.totalPMIPaid = 0


\* C29: whenever calculateTaxBenefits returns breakEvenYear = null, every year
\* of the breakdown itemizes: yearsOfItemization is the number of years.
C29_NullMeansAlwaysItemize ==
  (op = "tax" /\ pc = "returned" /\ taxBenefits.breakEvenYear = Null) =>
    /\ taxBenefits.yearsOfItemization = Len(taxBenefits.yearlyBreakdown)
    /\ \A k \in DOMAIN taxBenefits.yearlyBreakdown :
         taxBenefits.yearlyBreakdown[k].shouldItemize

\* breakEvenYear = null is returned for a profile that itemizes in no year
C29_NeverItemizes ==
  /\ op = "tax" /\ pc = "returned"
  /\ taxBenefits.breakEvenYear = Null
  /\ taxBenefits.yearsOfItemization = 0
  /\ Len(taxBenefits.yearlyBreakdown) >= 2
  /\ \A k \in DOMAIN taxBenefits.yearlyBreakdown :
       ~taxBenefits.yearlyBreakdown[k].shouldItemize


\* buildBuydownComparison has returned for the default candidate list and a
\* loan amount above 0
DefaultComparison ==
  /\ op = "buydown" /\ pc = "returned"
  /\ args.pointsOptions = <<0, 50, 100, 150, 200, 250, 300>>
  /\ args.baseInputs.loanAmount > 0

OwnershipMonths == args.baseInputs.expectedOwnershipYears * 12

\* the optimal scenario is worth its points: its net value is >= 0, and if it
\* has points, its break-even month is a number below the ownership months
\* (strictly or not) and the projected savings are above 0 (strictly or not)
OptimalIsWorthIt(strictly) ==
  LET optimal == result.optimalScenario
      slack == IF strictly THEN 0 ELSE 1
  IN /\ optimal.monthlySavings * OwnershipMonths - optimal.pointsCostDollars >= 0
     /\ optimal.numberOfPoints # 0 =>
          /\ optimal.breakEvenMonths \notin {NaN, Infinity}
          /\ optimal.breakEvenMonths < OwnershipMonths * NumberScale + slack
          /\ ~result.recommendation.noPoints
          /\ result.recommendation.projectedSavings > -slack

\* C30 as stated: for the default candidate list and loanAmount > 0, rate >= 0,
\* term > 0, the optimal scenario's net value monthlySavings x ownershipMonths -
\* pointsCostDollars is >= 0; if the optimal scenario has points, its
\* breakEvenMonths is strictly below the ownership months and the projected
\* savings of the recommendation are positive.
C30_Original == DefaultComparison => OptimalIsWorthIt(TRUE)

\* C30 (amended): the optimal scenario's net value is >= 0; if the optimal
\* scenario has points, its breakEvenMonths is below or, within rounding, equal
\* to the ownership months, and the projected savings are not negative.
C30_OptimalIsWorthIt == DefaultComparison => OptimalIsWorthIt(FALSE)

\* an optimum with points that breaks even in the last days of the stay: its
\* net value is above 0 and the projected savings come to 0
C30_RoundingTie ==
  /\ DefaultComparison
  /\ result.optimalScenario.numberOfPoints > 0
  /\ NetValue(result.optimalScenario, OwnershipMonths) > 0
  /\ result.optimalScenario.breakEvenMonths < OwnershipMonths * NumberScale
  /\ result.recommendation.breakEvenYears = args.baseInputs.expectedOwnershipYears * NumberScale
  /\ result.recommendation.projectedSavings = 0

\* a comparison whose optimum buys points and breaks even before the stay ends
C30_Witness ==
  /\ DefaultComparison
  /\ result.optimalScenario.numberOfPoints > 0
  /\ result.optimalScenario.breakEvenMonths > 12 * NumberScale
  /\ result.recommendation.projectedSavings > 0

\* a comparison of the same list whose stay is too short for any points
C30_NoPointsWitness ==
  /\ DefaultComparison
  /\ args.baseInputs.baseInterestRate > 0
  /\ result.optimalScenario.numberOfPoints = 0
  /\ \E k \in DOMAIN result.scenarios :
       /\ result.scenarios[k].monthlySavings > 0
       /\ result.scenarios[k].breakEvenMonths > OwnershipMonths * NumberScale

=============================================================================
